---- MODULE Spec2Model ----
(***************************************************************************)
(* SFO Connectivity Helper: capability tokens (auth.Signer), the session   *)
(* store and its rendezvous HTTP handlers, and the relay that pairs and    *)
(* splices authenticated connections.                                      *)
(*                                                                         *)
(* Go strings and byte slices are sequences of byte values (0..255).       *)
(***************************************************************************)
EXTENDS Integers, Sequences, FiniteSets, TLC

(***************************************************************************)
(* Bounds of the model.                                                    *)
(***************************************************************************)
\* the clock runs over 0..MaxTime (seconds)
MaxTime == 2
\* the token life cycle is placed at TimeBase..TimeBase+MaxTime, so that expiry
\* claims of one and of two decimal digits are signed and parsed
TimeBase == 8
\* the configured session time-to-live (SESSION_TTL_MINUTES), in clock ticks
SessionTTL == 1

VARIABLES
    now,        \* time.Now(), in seconds
    tkPhase,    \* token life cycle: "claims", "signed", "verified"
    tkClaims,   \* the TokenClaims handed to Sign
    tkSecret,   \* the secret of the Signer that signs
    tkVerifier, \* the secret of the Signer that verifies
    tkToken,    \* the token string handed to Verify
    tkMutated,  \* whether tkToken was altered after Sign
    tkResult,   \* what Verify returned
    deployment, \* which rendezvous runs: "standalone" (signaling main) or "embedded" (sfo-helper server)
    sessions,   \* Store.sessions: session id -> Session
    byCodes,    \* Store.byCodes: code -> session id
    usedIds,    \* the session ids generateID has drawn so far
    minted,     \* how many bearer tokens generateID has drawn so far
    lastResp,   \* the HTTP response of the last rendezvous request
    limiters,   \* Limiter.limiters: client address -> clientLimiter
    grants,     \* per address, the requests granted in each tick of the last minute
    verdict,    \* what the last Limiter.Allow returned, and to whom
    unswept,    \* the buckets of the same calls on a limiter whose doCleanup never deletes
    clients,    \* the peers that may dial the relay: connection ->
                \* [sids, roles, tokens ("own", "other" or "any"), quota]
    cPc,        \* RelayClient position: "idle", "awaiting" (in Connect), "ready", "closed"
    frame,      \* the AuthMessage of each connection, on the wire and then in
                \* HandleConnection's authMsg; dropped with a refused connection
    hPc,        \* HandleConnection position: "none", "handshake", "authenticated",
                \* "waiting" (waitForPair), "splicing" (pairConnections), "returned"
    reply,      \* the AuthResponse written to each connection ("none" before)
    pending,    \* Relay.pending: session id -> PendingConnection
    deadline,   \* the deadline computed by waitForPair for each connection
    connDeadline, \* the deadline conn.SetDeadline put on each connection's socket (0: none)
    sockClosed, \* conn.Close() was called on the relay's side of the connection
    splices,    \* the pairConnections calls that have not returned
    copying,    \* the io.Copy goroutines still running, as <<src, dst>>
    paired,     \* the session ids pairConnections has been called for
    written,    \* how many payload bytes each peer's bridge has written
    rcvbuf,     \* bytes of a peer that reached the relay and were not read yet
    sndbuf,     \* bytes the relay wrote to a peer that the peer has not read yet
    obtained,   \* the bytes each peer's bridge read from RelayClient.GetConn()
    cancelled,  \* the context the servers were started with is done
    bState,     \* Bridge.state
    callbacks,  \* the calls of the state-change callback: the state handed over,
                \* and whether b.mu was held
    stopCh,     \* Bridge.stopCh is closed
    bConn,      \* Bridge.localConn and Bridge.relayConn: "nil", "open" or "closed"
    closeCalls, \* how often Bridge.Close ran, and how often it closed the stop
                \* channel and each socket
    stats,      \* Stats.BytesIn and Stats.BytesOut
    wrote,      \* the bytes Write took on each socket without an error
    fPc,        \* position of forwardToLocal and forwardToRelay: "none", "loop"
                \* (top of a round, or in Read), "write" (Read returned bytes), "done"
    fBuf,       \* how many bytes each copy loop holds between Read and Write
    wDeadline,  \* the deadline computed by WaitForGame
    wLastPoll,  \* when the WaitForGame loop ran its last round (NoRound: not yet)
    wResult,    \* what WaitForGame returned: "none", "ok", "timeout", "cancelled"
    oPc,        \* what the bridge's owner is doing: "none", "init", "waitForGame",
                \* "idle", "connectRelay", "select", "done", "exited"
    gameUpSince \* since when the game listens on the target address (NoGame: not)

tokenVars == <<tkPhase, tkClaims, tkSecret, tkVerifier, tkToken, tkMutated, tkResult>>
storeVars == <<sessions, byCodes, usedIds, minted>>
rendezvousVars == <<deployment, storeVars, lastResp>>
clientVars == <<clients, cPc, frame, written, obtained>>
handlerVars == <<hPc, reply, pending, deadline, connDeadline, sockClosed, splices, copying,
                 paired>>
wireVars == <<rcvbuf, sndbuf>>
relayVars == <<clientVars, handlerVars, wireVars>>
\* what each part of the system leaves alone
limiterVars == <<limiters, grants, verdict, unswept>>
bridgeVars == <<bState, callbacks, stopCh, bConn, closeCalls, stats, wrote, fPc, fBuf, wDeadline, wLastPoll,
                wResult, oPc, gameUpSince>>
nonTokenVars == <<rendezvousVars, relayVars, limiterVars, bridgeVars, cancelled>>
nonRendezvousVars == <<tokenVars, relayVars, limiterVars, bridgeVars, cancelled>>
nonRelayVars == <<tokenVars, rendezvousVars, limiterVars, bridgeVars, cancelled>>
nonLimiterVars == <<tokenVars, rendezvousVars, relayVars, bridgeVars, cancelled>>
nonBridgeVars == <<tokenVars, rendezvousVars, relayVars, limiterVars, cancelled>>
vars == <<now, tokenVars, rendezvousVars, relayVars, limiterVars, bridgeVars, cancelled>>

(***************************************************************************)
(* Byte-string helpers.                                                    *)
(***************************************************************************)
Drop(s, n) == SubSeq(s, n + 1, Len(s))

Take(s, n) == SubSeq(s, 1, n)

HasPrefix(s, p) == Len(s) >= Len(p) /\ Take(s, Len(p)) = p

\* how many times b occurs in s
Count(s, b) == Cardinality({i \in 1..Len(s) : s[i] = b})

\* index of the first b in s, 0 when absent
IndexOf(s, b) ==
    LET at == {i \in 1..Len(s) : s[i] = b} IN
    IF at = {} THEN 0 ELSE CHOOSE i \in at : \A j \in at : i <= j

\* ASCII spellings used by the wire formats
RoleHost == <<104, 111, 115, 116>>                  \* host
RoleJoiner == <<106, 111, 105, 110, 101, 114>>      \* joiner
Dot == <<46>>                                       \* .

(***************************************************************************)
(* encoding/base64 RawURLEncoding: unpadded, URL alphabet, non-strict      *)
(* decoding (CR and LF are skipped, trailing bits are not checked).        *)
(***************************************************************************)
B64Alphabet ==
    [i \in 1..64 |->
        IF i <= 26 THEN 64 + i
        ELSE IF i <= 52 THEN 70 + i
        ELSE IF i <= 62 THEN i - 5
        ELSE IF i = 63 THEN 45 ELSE 95]

\* the 6-bit value of an alphabet character, -1 for any other byte
B64Value(ch) ==
    IF ch >= 65 /\ ch <= 90 THEN ch - 65
    ELSE IF ch >= 97 /\ ch <= 122 THEN ch - 71
    ELSE IF ch >= 48 /\ ch <= 57 THEN ch + 4
    ELSE IF ch = 45 THEN 62
    ELSE IF ch = 95 THEN 63
    ELSE -1

RECURSIVE B64Encode(_)
B64Encode(bs) ==
    IF bs = <<>> THEN <<>>
    ELSE IF Len(bs) = 1 THEN
        LET v == bs[1] * 16 IN
        <<B64Alphabet[(v \div 64) + 1], B64Alphabet[(v % 64) + 1]>>
    ELSE IF Len(bs) = 2 THEN
        LET v == (bs[1] * 256 + bs[2]) * 4 IN
        <<B64Alphabet[(v \div 4096) + 1], B64Alphabet[((v \div 64) % 64) + 1],
          B64Alphabet[(v % 64) + 1]>>
    ELSE
        LET v == bs[1] * 65536 + bs[2] * 256 + bs[3] IN
        <<B64Alphabet[(v \div 262144) + 1], B64Alphabet[((v \div 4096) % 64) + 1],
          B64Alphabet[((v \div 64) % 64) + 1], B64Alphabet[(v % 64) + 1]>>
        \o B64Encode(Drop(bs, 3))

\* the decoder skips '\r' and '\n' wherever they stand
B64Significant(s) == SelectSeq(s, LAMBDA ch : ch # 10 /\ ch # 13)

RECURSIVE B64Quanta(_)
\* s: 6-bit values; a last quantum of 2 or 3 values yields 1 or 2 bytes and
\* its unused low bits are dropped unexamined
B64Quanta(vs) ==
    IF vs = <<>> THEN <<>>
    ELSE IF Len(vs) = 2 THEN
        <<(vs[1] * 64 + vs[2]) \div 16>>
    ELSE IF Len(vs) = 3 THEN
        LET v == (vs[1] * 4096 + vs[2] * 64 + vs[3]) \div 4 IN
        <<v \div 256, v % 256>>
    ELSE
        LET v == vs[1] * 262144 + vs[2] * 4096 + vs[3] * 64 + vs[4] IN
        <<v \div 65536, (v \div 256) % 256, v % 256>> \o B64Quanta(Drop(vs, 4))

\* [ok, bytes]
B64Decode(s) ==
    LET sig == B64Significant(s)
        vs == [i \in 1..Len(sig) |-> B64Value(sig[i])]
    IN  IF (\E i \in 1..Len(vs) : vs[i] = -1) \/ Len(vs) % 4 = 1
        THEN [ok |-> FALSE, bytes |-> <<>>]
        ELSE [ok |-> TRUE, bytes |-> B64Quanta(vs)]

(***************************************************************************)
(* encoding/json for TokenClaims {"sid":..,"role":..,"exp":..}: Marshal    *)
(* writes the fields in declaration order with no whitespace, escaping the *)
(* quote and the backslash inside strings; Unmarshal reads that form back. *)
(***************************************************************************)
RECURSIVE Itoa(_)
Itoa(n) ==
    IF n < 10 THEN <<48 + n>> ELSE Itoa(n \div 10) \o <<48 + (n % 10)>>

RECURSIVE JsonEscape(_)
JsonEscape(s) ==
    IF s = <<>> THEN <<>>
    ELSE (IF s[1] = 34 \/ s[1] = 92 THEN <<92, s[1]>> ELSE <<s[1]>>)
         \o JsonEscape(Drop(s, 1))

JsonString(s) == <<34>> \o JsonEscape(s) \o <<34>>

KeySid == <<123, 34, 115, 105, 100, 34, 58>>            \* {"sid":
KeyRole == <<44, 34, 114, 111, 108, 101, 34, 58>>       \* ,"role":
KeyExp == <<44, 34, 101, 120, 112, 34, 58>>             \* ,"exp":

MarshalClaims(claims) ==
    KeySid \o JsonString(claims.sid) \o KeyRole \o JsonString(claims.role)
    \o KeyExp \o Itoa(claims.exp) \o <<125>>

RECURSIVE ReadString(_)
\* s starts after an opening quote: [ok, val, rest], rest after the closing quote
ReadString(s) ==
    IF s = <<>> THEN [ok |-> FALSE, val |-> <<>>, rest |-> <<>>]
    ELSE IF s[1] = 34 THEN [ok |-> TRUE, val |-> <<>>, rest |-> Drop(s, 1)]
    ELSE IF s[1] = 92 THEN
        IF Len(s) < 2 \/ (s[2] # 34 /\ s[2] # 92)
        THEN [ok |-> FALSE, val |-> <<>>, rest |-> <<>>]
        ELSE LET r == ReadString(Drop(s, 2)) IN
             [ok |-> r.ok, val |-> <<s[2]>> \o r.val, rest |-> r.rest]
    ELSE LET r == ReadString(Drop(s, 1)) IN
         [ok |-> r.ok, val |-> <<s[1]>> \o r.val, rest |-> r.rest]

RECURSIVE ReadDigits(_, _)
\* [n, len]: the value and the length of the leading run of digits, acc so far
ReadDigits(s, acc) ==
    IF s = <<>> \/ s[1] < 48 \/ s[1] > 57 THEN [n |-> acc, len |-> 0]
    ELSE LET r == ReadDigits(Drop(s, 1), acc * 10 + (s[1] - 48)) IN
         [n |-> r.n, len |-> r.len + 1]

NoClaims == [sid |-> <<>>, role |-> <<>>, exp |-> 0]

\* [ok, claims]
UnmarshalClaims(payload) ==
    LET bad == [ok |-> FALSE, claims |-> NoClaims] IN
    IF ~HasPrefix(payload, KeySid \o <<34>>) THEN bad
    ELSE LET a == ReadString(Drop(payload, Len(KeySid) + 1)) IN
    IF ~a.ok \/ ~HasPrefix(a.rest, KeyRole \o <<34>>) THEN bad
    ELSE LET b == ReadString(Drop(a.rest, Len(KeyRole) + 1)) IN
    IF ~b.ok \/ ~HasPrefix(b.rest, KeyExp) THEN bad
    ELSE LET ds == Drop(b.rest, Len(KeyExp))
             d == ReadDigits(ds, 0)
         IN
    IF d.len = 0 \/ Drop(ds, d.len) # <<125>> THEN bad
    ELSE [ok |-> TRUE, claims |-> [sid |-> a.val, role |-> b.val, exp |-> d.n]]

(***************************************************************************)
(* crypto/hmac with SHA-256, idealised: the MAC of a payload under a       *)
(* secret is a byte string that no other (secret, payload) pair yields.    *)
(* Secrets are one-byte keys here, so key-then-payload is such a string.   *)
(***************************************************************************)
HmacSha256(secret, payload) == <<secret>> \o payload

(***************************************************************************)
(* auth.Signer                                                             *)
(***************************************************************************)
Sign(claims, secret) ==
    LET payload == MarshalClaims(claims) IN
    B64Encode(payload) \o Dot \o B64Encode(HmacSha256(secret, payload))

VerifyError(kind) == [err |-> kind, claims |-> NoClaims]

\* Verify without the expiry comparison
VerifyUnexpiring(token, secret, t) ==
    IF Count(token, 46) # 1 THEN VerifyError("format")
    ELSE
    LET dot == IndexOf(token, 46)
        payload == B64Decode(Take(token, dot - 1))
        signature == B64Decode(Drop(token, dot))
    IN
    IF ~payload.ok THEN VerifyError("payload")
    ELSE IF ~signature.ok THEN VerifyError("signature-encoding")
    ELSE IF signature.bytes # HmacSha256(secret, payload.bytes) THEN VerifyError("signature")
    ELSE LET c == UnmarshalClaims(payload.bytes) IN
    IF ~c.ok THEN VerifyError("claims")
    ELSE [err |-> "", claims |-> c.claims]

\* Verify with the expiry comparison off by one (an expiry equal to now refused)
VerifyExpiryInclusive(token, secret, t) ==
    IF Count(token, 46) # 1 THEN VerifyError("format")
    ELSE
    LET dot == IndexOf(token, 46)
        payload == B64Decode(Take(token, dot - 1))
        signature == B64Decode(Drop(token, dot))
    IN
    IF ~payload.ok THEN VerifyError("payload")
    ELSE IF ~signature.ok THEN VerifyError("signature-encoding")
    ELSE IF signature.bytes # HmacSha256(secret, payload.bytes) THEN VerifyError("signature")
    ELSE LET c == UnmarshalClaims(payload.bytes) IN
    IF ~c.ok THEN VerifyError("claims")
    ELSE IF t >= c.claims.exp THEN VerifyError("expired")
    ELSE [err |-> "", claims |-> c.claims]

\* Verify at time t: [err, claims], err = "" on success
Verify(token, secret, t) ==
    IF Count(token, 46) # 1 THEN VerifyError("format")
    ELSE
    LET dot == IndexOf(token, 46)
        payload == B64Decode(Take(token, dot - 1))
        signature == B64Decode(Drop(token, dot))
    IN
    IF ~payload.ok THEN VerifyError("payload")
    ELSE IF ~signature.ok THEN VerifyError("signature-encoding")
    ELSE IF signature.bytes # HmacSha256(secret, payload.bytes) THEN VerifyError("signature")
    ELSE LET c == UnmarshalClaims(payload.bytes) IN
    IF ~c.ok THEN VerifyError("claims")
    ELSE IF t > c.claims.exp THEN VerifyError("expired")
    ELSE [err |-> "", claims |-> c.claims]

\* CreateRelayToken at time t with a time-to-live of ttl seconds
CreateRelayToken(sid, role, ttl, secret, t) ==
    Sign([sid |-> sid, role |-> role, exp |-> t + ttl], secret)

(***************************************************************************)
(* Token life cycle: claims are signed, the token string may be altered    *)
(* on its way (one bit of one character flipped, or a line break inserted),*)
(* or handcrafted with a MAC made without the secret, and is verified.     *)
(***************************************************************************)
ServerSecret == 1
Secrets == {ServerSecret, ServerSecret + 1}

\* session ids as generateID renders them: lower-case hex
SessionIds == {<<97, 49>>, <<98, 50>>}      \* a1, b2
Roles == {RoleHost, RoleJoiner}

ClaimsSet == [sid : SessionIds, role : Roles, exp : (TimeBase + 1)..(TimeBase + 2)]

NoResult == [err |-> "none", claims |-> NoClaims]

FlipBit(b, k) ==
    LET p == 2 ^ k IN IF (b \div p) % 2 = 1 THEN b - p ELSE b + p

\* MACs an attacker without the secret can put under a payload
GuessedMacs(payload) == {<<0>>, payload, <<ServerSecret + 1>> \o payload}

TokenInit ==
    /\ now \in TimeBase..(TimeBase + MaxTime)
    /\ tkPhase = "claims"
    /\ tkClaims \in ClaimsSet
    /\ tkSecret \in Secrets
    /\ tkVerifier = ServerSecret
    /\ tkToken = <<>>
    /\ tkMutated = FALSE
    /\ tkResult = NoResult

TkSign ==
    /\ tkPhase = "claims"
    /\ tkToken' = Sign(tkClaims, tkSecret)
    /\ tkPhase' = "signed"
    /\ UNCHANGED <<now, tkClaims, tkSecret, tkVerifier, tkMutated, tkResult, nonTokenVars>>

TkForge ==
    /\ tkPhase = "claims"
    /\ \E mac \in GuessedMacs(MarshalClaims(tkClaims)) :
          tkToken' = B64Encode(MarshalClaims(tkClaims)) \o Dot \o B64Encode(mac)
    /\ tkPhase' = "signed"
    /\ tkMutated' = TRUE
    /\ UNCHANGED <<now, tkClaims, tkSecret, tkVerifier, tkResult, nonTokenVars>>

TkFlip ==
    /\ tkPhase = "signed"
    /\ ~tkMutated
    /\ \E i \in 1..Len(tkToken), k \in 0..7 :
          tkToken' = [tkToken EXCEPT ![i] = FlipBit(tkToken[i], k)]
    /\ tkMutated' = TRUE
    /\ UNCHANGED <<now, tkPhase, tkClaims, tkSecret, tkVerifier, tkResult, nonTokenVars>>

TkLineBreak ==
    /\ tkPhase = "signed"
    /\ ~tkMutated
    /\ \E i \in 0..Len(tkToken) :
          tkToken' = Take(tkToken, i) \o <<10>> \o Drop(tkToken, i)
    /\ tkMutated' = TRUE
    /\ UNCHANGED <<now, tkPhase, tkClaims, tkSecret, tkVerifier, tkResult, nonTokenVars>>

TkVerify ==
    /\ tkPhase = "signed"
    /\ tkResult' = Verify(tkToken, tkVerifier, now)
    /\ tkPhase' = "verified"
    /\ UNCHANGED <<now, tkClaims, tkSecret, tkVerifier, tkToken, tkMutated, nonTokenVars>>

TokenNext == TkSign \/ TkForge \/ TkFlip \/ TkLineBreak \/ TkVerify


(***************************************************************************)
(* C9: token round trip. A token signed from claims whose expiry is not in *)
(* the past, handed unaltered to Verify under the same secret, verifies    *)
(* and yields claims equal to the ones signed.                             *)
(***************************************************************************)
TokenRoundTrip ==
    (/\ tkPhase = "verified"
     /\ ~tkMutated
     /\ tkVerifier = tkSecret
     /\ tkClaims.exp >= now)
    => (tkResult.err = "" /\ tkResult.claims = tkClaims)

TokenRoundTripWitness ==
    /\ tkPhase = "verified"
    /\ ~tkMutated
    /\ tkVerifier = tkSecret
    /\ tkClaims.exp = now
    /\ tkResult.err = ""
    /\ tkResult.claims = tkClaims

(***************************************************************************)
(* C10: unforgeability as claimed. Verify accepts a token only if it is    *)
(* the very string Sign issues for the returned claims under the           *)
(* verifier's secret: every altered token, every token with a handcrafted  *)
(* MAC and every token signed under another secret is refused.             *)
(***************************************************************************)
TokenUnforgeable ==
    (tkPhase = "verified" /\ tkResult.err = "")
    => (/\ ~tkMutated
        /\ tkSecret = tkVerifier
        /\ tkToken = Sign(tkResult.claims, tkVerifier))

(***************************************************************************)
(* C11: expired tokens are refused and the error kinds are told apart.     *)
(* Every token Verify accepts carries an expiry that is not in the past;   *)
(* an unaltered token whose expiry is in the past fails whether it was     *)
(* signed under the verifier's secret ("expired") or under another one     *)
(* ("signature"); and the error reported is of the kind of the first       *)
(* defect of the token: a malformed encoding, a MAC that does not match,   *)
(* or claims that have expired.                                            *)
(***************************************************************************)
ExpiredTokenRefused ==
    tkPhase = "verified" =>
    LET wellSplit == Count(tkToken, 46) = 1
        dot == IndexOf(tkToken, 46)
        payload == B64Decode(Take(tkToken, dot - 1))
        signature == B64Decode(Drop(tkToken, dot))
        wellFormed == wellSplit /\ payload.ok /\ signature.ok
        macMatches == signature.bytes = HmacSha256(tkVerifier, payload.bytes)
    IN
    /\ tkResult.err = "" => tkResult.claims.exp >= now
    /\ (~tkMutated /\ tkClaims.exp < now) =>
          tkResult.err = (IF tkSecret = tkVerifier THEN "expired" ELSE "signature")
    /\ tkResult.err \in {"format", "payload", "signature-encoding"} <=> ~wellFormed
    /\ tkResult.err = "signature" <=> (wellFormed /\ ~macMatches)
    /\ tkResult.err = "expired" =>
          /\ wellFormed /\ macMatches
          /\ UnmarshalClaims(payload.bytes).ok
          /\ UnmarshalClaims(payload.bytes).claims.exp < now

ExpiredTokenRefusedWitness ==
    /\ tkPhase = "verified"
    /\ ~tkMutated
    /\ tkSecret = tkVerifier
    /\ tkClaims.exp < now
    /\ tkResult.err = "expired"

(***************************************************************************)
(* Join codes: generateCode renders 8 random bytes in unpadded base32,     *)
(* keeps the first 12 characters and groups them XXXX-XXXX-XXXX.           *)
(***************************************************************************)
ByteBits(b) ==
    <<(b \div 128) % 2, (b \div 64) % 2, (b \div 32) % 2, (b \div 16) % 2,
      (b \div 8) % 2, (b \div 4) % 2, (b \div 2) % 2, b % 2>>

RECURSIVE BitsOf(_)
BitsOf(bs) == IF bs = <<>> THEN <<>> ELSE ByteBits(bs[1]) \o BitsOf(Drop(bs, 1))

Base32Char(v) == IF v < 26 THEN 65 + v ELSE 24 + v

RECURSIVE Base32Groups(_)
\* five bits a character, the last group padded with zero bits
Base32Groups(bits) ==
    IF bits = <<>> THEN <<>>
    ELSE LET g == Take(bits \o <<0, 0, 0, 0>>, 5) IN
         <<Base32Char(g[1] * 16 + g[2] * 8 + g[3] * 4 + g[4] * 2 + g[5])>>
         \o Base32Groups(IF Len(bits) <= 5 THEN <<>> ELSE Drop(bits, 5))

Base32Encode(bs) == Base32Groups(BitsOf(bs))

ToUpper(s) == [i \in 1..Len(s) |-> IF s[i] >= 97 /\ s[i] <= 122 THEN s[i] - 32 ELSE s[i]]

\* strings.ReplaceAll(s, "-", "")
StripDashes(s) == SelectSeq(s, LAMBDA ch : ch # 45)

RECURSIVE TrimLeft(_)
TrimLeft(s) ==
    IF s # <<>> /\ s[1] \in {9, 10, 11, 12, 13, 32} THEN TrimLeft(Drop(s, 1)) ELSE s

RECURSIVE TrimRight(_)
TrimRight(s) ==
    IF s # <<>> /\ s[Len(s)] \in {9, 10, 11, 12, 13, 32}
    THEN TrimRight(Take(s, Len(s) - 1)) ELSE s

TrimSpace(s) == TrimRight(TrimLeft(s))

\* fmt.Sprintf("%s-%s-%s", c[0:4], c[4:8], c[8:12])
Quartets(c) == SubSeq(c, 1, 4) \o <<45>> \o SubSeq(c, 5, 8) \o <<45>> \o SubSeq(c, 9, 12)

generateCode(b) == Quartets(ToUpper(Take(Base32Encode(b), 12)))

\* the 8-byte blocks rand.Read can deliver here
RandomBlocks ==
    { <<14, 93, 147, 33, 247, 132, 106, 16>>,       \* BZOZ-GIPX-QRVB
      <<214, 50, 31, 107, 112, 9, 196, 170>> }      \* 2YZB-623Q-BHCK

Codes == {generateCode(b) : b \in RandomBlocks}

(***************************************************************************)
(* session.Store                                                           *)
(***************************************************************************)
\* bearer tokens are the values generateID(32) draws; 0 is the empty string
NoToken == 0

MapPut(f, k, v) == [x \in DOMAIN f \cup {k} |-> IF x = k THEN v ELSE f[x]]

MapDelete(f, k) == [x \in DOMAIN f \ {k} |-> f[x]]

EmptyMap == [x \in {} |-> 0]

Expired(session, t) == t > session.ExpiresAt

\* Store.Create with the expiry set to the creation instant
StoreCreateNoTTL(ss, bc, id, code, hostToken, t) ==
    LET session == [ID |-> id, Code |-> code, HostToken |-> hostToken,
                    JoinToken |-> NoToken, HostConnected |-> FALSE,
                    JoinConnected |-> FALSE, CreatedAt |-> t,
                    ExpiresAt |-> t]
    IN  [sessions |-> MapPut(ss, id, session),
         byCodes |-> MapPut(bc, code, id),
         session |-> session]

\* Store.Create with the values drawn: [sessions, byCodes, session]
StoreCreate(ss, bc, id, code, hostToken, t) ==
    LET session == [ID |-> id, Code |-> code, HostToken |-> hostToken,
                    JoinToken |-> NoToken, HostConnected |-> FALSE,
                    JoinConnected |-> FALSE, CreatedAt |-> t,
                    ExpiresAt |-> t + SessionTTL]
    IN  [sessions |-> MapPut(ss, id, session),
         byCodes |-> MapPut(bc, code, id),
         session |-> session]

\* Store.Join without the test for an earlier joiner
StoreJoinAgain(ss, bc, code, joinToken, t) ==
    IF code \notin DOMAIN bc THEN [err |-> "session not found", sessions |-> ss, id |-> <<>>]
    ELSE LET id == bc[code] IN
    IF id \notin DOMAIN ss \/ Expired(ss[id], t)
    THEN [err |-> "session expired", sessions |-> ss, id |-> <<>>]
    ELSE [err |-> "",
          sessions |-> [ss EXCEPT ![id].JoinToken = joinToken],
          id |-> id]

\* Store.Join: [err, sessions, id], err = "" on success
StoreJoin(ss, bc, code, joinToken, t) ==
    IF code \notin DOMAIN bc THEN [err |-> "session not found", sessions |-> ss, id |-> <<>>]
    ELSE LET id == bc[code] IN
    IF id \notin DOMAIN ss \/ Expired(ss[id], t)
    THEN [err |-> "session expired", sessions |-> ss, id |-> <<>>]
    ELSE IF ss[id].JoinToken # NoToken
    THEN [err |-> "session already has a joiner", sessions |-> ss, id |-> <<>>]
    ELSE [err |-> "",
          sessions |-> [ss EXCEPT ![id].JoinToken = joinToken],
          id |-> id]

\* Store.SetHostConnected / Store.SetJoinConnected: [ok, sessions]
StoreSetHostConnected(ss, id, connected) ==
    IF id \notin DOMAIN ss THEN [ok |-> FALSE, sessions |-> ss]
    ELSE [ok |-> TRUE, sessions |-> [ss EXCEPT ![id].HostConnected = connected]]

StoreSetJoinConnected(ss, id, connected) ==
    IF id \notin DOMAIN ss THEN [ok |-> FALSE, sessions |-> ss]
    ELSE [ok |-> TRUE, sessions |-> [ss EXCEPT ![id].JoinConnected = connected]]

NoSession == [ID |-> <<>>, Code |-> <<>>, HostToken |-> NoToken, JoinToken |-> NoToken,
              HostConnected |-> FALSE, JoinConnected |-> FALSE, CreatedAt |-> 0,
              ExpiresAt |-> 0]

\* Store.GetByID without the expiry test
StoreGetByIDStale(ss, id, t) ==
    IF id \notin DOMAIN ss THEN [ok |-> FALSE, session |-> NoSession]
    ELSE [ok |-> TRUE, session |-> ss[id]]

\* Store.GetByID at time t: [ok, session]
StoreGetByID(ss, id, t) ==
    IF id \notin DOMAIN ss \/ Expired(ss[id], t) THEN [ok |-> FALSE, session |-> NoSession]
    ELSE [ok |-> TRUE, session |-> ss[id]]

\* Store.GetByCode at time t: [ok, session]
StoreGetByCode(ss, bc, code, t) ==
    IF code \notin DOMAIN bc THEN [ok |-> FALSE, session |-> NoSession]
    ELSE StoreGetByID(ss, bc[code], t)

\* Store.Delete: [sessions, byCodes]
StoreDelete(ss, bc, id) ==
    IF id \in DOMAIN ss
    THEN [sessions |-> MapDelete(ss, id), byCodes |-> MapDelete(bc, ss[id].Code)]
    ELSE [sessions |-> ss, byCodes |-> bc]

\* Store.ValidateToken that takes either token of the session for any role
StoreValidateTokenAnyRole(ss, sessionID, token, role, t) ==
    IF sessionID \notin DOMAIN ss \/ Expired(ss[sessionID], t) THEN FALSE
    ELSE token \in {ss[sessionID].HostToken, ss[sessionID].JoinToken}

\* Store.ValidateToken at time t
StoreValidateToken(ss, sessionID, token, role, t) ==
    IF sessionID \notin DOMAIN ss \/ Expired(ss[sessionID], t) THEN FALSE
    ELSE IF role = RoleHost THEN ss[sessionID].HostToken = token
    ELSE IF role = RoleJoiner THEN ss[sessionID].JoinToken = token
    ELSE FALSE

\* Store.cleanup at time t: [sessions, byCodes]
RECURSIVE StoreCleanupFrom(_, _, _, _)
StoreCleanupFrom(ss, bc, ids, t) ==
    IF ids = {} THEN [sessions |-> ss, byCodes |-> bc]
    ELSE LET id == CHOOSE x \in ids : TRUE IN
         IF Expired(ss[id], t)
         THEN StoreCleanupFrom(MapDelete(ss, id), MapDelete(bc, ss[id].Code), ids \ {id}, t)
         ELSE StoreCleanupFrom(ss, bc, ids \ {id}, t)

(***************************************************************************)
(* The rendezvous HTTP handlers: Server.handleCreate / Server.handleJoin   *)
(* of the standalone signaling server and the handlers the sfo-helper      *)
(* server registers in runSignalingServer. The limiter's bucket for the    *)
(* caller's address is also drained by requests that are not followed here *)
(* (other clients behind the address, requests with a bad body), so its    *)
(* verdict is an input of each handler.                                    *)
(***************************************************************************)
ToLower(s) == [i \in 1..Len(s) |-> IF s[i] >= 65 /\ s[i] <= 90 THEN s[i] + 32 ELSE s[i]]

UnknownCode == <<90, 90, 57, 57, 45, 90, 90, 57, 57, 45, 90, 90, 57, 57>>   \* ZZ99-ZZ99-ZZ99

\* what clients type into /session/join
JoinInputs ==
    Codes \cup {StripDashes(ToLower(c)) : c \in Codes}
          \cup {ToLower(c) : c \in Codes}
          \cup {StripDashes(c) : c \in Codes}
          \cup {Take(c, 4) \o Drop(c, 5) : c \in Codes}
          \cup {UnknownCode}

SfoPrefix == <<83, 70, 79>>     \* SFO

\* the code handleJoin hands to Store.Join
NormalizeStandalone(input) ==
    LET code == ToUpper(StripDashes(input)) IN
    IF Len(code) = 12 THEN Quartets(code) ELSE code

NormalizeEmbedded(input) ==
    LET a == StripDashes(ToUpper(TrimSpace(input)))
        b == IF HasPrefix(a, SfoPrefix) THEN Drop(a, 3) ELSE a
    IN  IF Len(b) = 4 THEN SfoPrefix \o <<45>> \o b ELSE b

NoResp == [op |-> "none", status |-> 0, storeErr |-> "", sessionId |-> <<>>,
           bearer |-> NoToken, relayToken |-> <<>>, expiresAt |-> 0,
           hostConnected |-> FALSE, joinConnected |-> FALSE]

\* an error response that passes for a success
RespAccepted(op, status, storeErr) == [NoResp EXCEPT !.op = op, !.status = 200]

Resp(op, status, storeErr) == [NoResp EXCEPT !.op = op, !.status = status, !.storeErr = storeErr]

RendezvousInit ==
    /\ now = 0
    /\ deployment \in {"standalone", "embedded"}
    /\ sessions = EmptyMap
    /\ byCodes = EmptyMap
    /\ usedIds = {}
    /\ minted = 0
    /\ lastResp = NoResp

\* the rendezvous is not running
RendezvousIdle ==
    /\ deployment = "none"
    /\ sessions = EmptyMap
    /\ byCodes = EmptyMap
    /\ usedIds = {}
    /\ minted = 0
    /\ lastResp = NoResp

\* no token is under way
TokenIdle ==
    /\ tkPhase = "idle"
    /\ tkClaims = NoClaims
    /\ tkSecret = ServerSecret
    /\ tkVerifier = ServerSecret
    /\ tkToken = <<>>
    /\ tkMutated = FALSE
    /\ tkResult = NoResult

\* POST /session/create; allowed is the verdict of limiter.AllowCreate(ip)
HandleCreate(allowed) ==
    /\ IF ~allowed
       THEN /\ lastResp' = Resp("create", 429, "")
            /\ UNCHANGED <<storeVars>>
       ELSE \E id \in SessionIds \ usedIds, b \in RandomBlocks :
               LET c == StoreCreate(sessions, byCodes, id, generateCode(b), minted + 1, now)
                   ss == IF deployment = "embedded"
                         THEN StoreSetHostConnected(c.sessions, id, TRUE).sessions
                         ELSE c.sessions
               IN  /\ sessions' = ss
                   /\ byCodes' = c.byCodes
                   /\ usedIds' = usedIds \cup {id}
                   /\ minted' = minted + 1
                   /\ lastResp' = [NoResp EXCEPT
                                     !.op = "create", !.status = 200,
                                     !.sessionId = id, !.bearer = c.session.HostToken,
                                     !.relayToken = CreateRelayToken(id, RoleHost, SessionTTL,
                                                                     ServerSecret, now),
                                     !.expiresAt = c.session.ExpiresAt]
    /\ UNCHANGED <<now, deployment, nonRendezvousVars>>

\* POST /session/join {code: input}; allowed is the verdict of limiter.AllowJoin(ip)
HandleJoin(allowed, input) ==
    LET code == IF deployment = "embedded" THEN NormalizeEmbedded(input)
                ELSE NormalizeStandalone(input)
        j == StoreJoin(sessions, byCodes, code, minted + 1, now)
    IN
    /\ IF ~allowed
       THEN /\ lastResp' = Resp("join", 429, "")
            /\ UNCHANGED <<storeVars>>
       ELSE IF j.err # ""
       THEN /\ lastResp' = Resp("join", 404, j.err)
            /\ UNCHANGED <<storeVars>>
       ELSE /\ sessions' = (IF deployment = "embedded"
                            THEN StoreSetJoinConnected(j.sessions, j.id, TRUE).sessions
                            ELSE j.sessions)
            /\ minted' = minted + 1
            /\ lastResp' = [NoResp EXCEPT
                              !.op = "join", !.status = 200,
                              !.sessionId = j.id, !.bearer = j.sessions[j.id].JoinToken,
                              !.relayToken = CreateRelayToken(j.id, RoleJoiner, SessionTTL,
                                                              ServerSecret, now),
                              !.hostConnected = j.sessions[j.id].HostConnected]
            /\ UNCHANGED <<byCodes, usedIds>>
    /\ UNCHANGED <<now, deployment, nonRendezvousVars>>

\* the Authorization headers of requests: none, every token the store can
\* have issued (a host token and a joiner token per session), and one it never issues
BearerTokens == {NoToken} \cup 1..(2 * Cardinality(SessionIds) + 1)

\* GET /session/{id}/status
HandleStatus(id) ==
    LET g == StoreGetByID(sessions, id, now) IN
    /\ lastResp' = IF ~g.ok THEN Resp("status", 404, "")
                   ELSE [NoResp EXCEPT !.op = "status", !.status = 200,
                                       !.sessionId = g.session.ID,
                                       !.hostConnected = g.session.HostConnected,
                                       !.joinConnected = g.session.JoinConnected,
                                       !.expiresAt = g.session.ExpiresAt]
    /\ UNCHANGED <<now, deployment, storeVars, nonRendezvousVars>>

\* POST /session/{id}/connect {role, connected}; the sfo-helper server has no
\* such route and answers 404
HandleConnect(id, role, connected) ==
    LET s == IF role = RoleHost THEN StoreSetHostConnected(sessions, id, connected)
             ELSE StoreSetJoinConnected(sessions, id, connected)
    IN
    /\ IF deployment = "embedded"
       THEN /\ lastResp' = Resp("connect", 404, "")
            /\ UNCHANGED sessions
       ELSE IF role \notin Roles
       THEN /\ lastResp' = Resp("connect", 400, "")
            /\ UNCHANGED sessions
       ELSE IF ~s.ok
       THEN /\ lastResp' = Resp("connect", 404, "session not found")
            /\ UNCHANGED sessions
       ELSE /\ lastResp' = Resp("connect", 200, "")
            /\ sessions' = s.sessions
    /\ UNCHANGED <<now, deployment, byCodes, usedIds, minted, nonRendezvousVars>>

\* DELETE /session/{id} with Authorization: Bearer token (NoToken: no header);
\* the sfo-helper server has no such route and answers 404
HandleDelete(id, token) ==
    LET d == StoreDelete(sessions, byCodes, id) IN
    /\ IF deployment = "embedded"
       THEN /\ lastResp' = Resp("delete", 404, "")
            /\ UNCHANGED <<sessions, byCodes>>
       ELSE IF token = NoToken
       THEN /\ lastResp' = Resp("delete", 401, "")
            /\ UNCHANGED <<sessions, byCodes>>
       ELSE IF ~StoreValidateToken(sessions, id, token, RoleHost, now)
       THEN /\ lastResp' = Resp("delete", 403, "")
            /\ UNCHANGED <<sessions, byCodes>>
       ELSE /\ lastResp' = [Resp("delete", 200, "") EXCEPT !.sessionId = id]
            /\ sessions' = d.sessions
            /\ byCodes' = d.byCodes
    /\ UNCHANGED <<now, deployment, usedIds, minted, nonRendezvousVars>>

\* one round of Store.cleanupLoop
StoreJanitor ==
    LET c == StoreCleanupFrom(sessions, byCodes, DOMAIN sessions, now) IN
    /\ sessions' = c.sessions
    /\ byCodes' = c.byCodes
    /\ UNCHANGED <<now, deployment, usedIds, minted, lastResp, nonRendezvousVars>>

\* a second passes; a WaitForGame loop, which sleeps 500 ms between two
\* rounds, has run a round in the second that ends
Tick ==
    /\ now < MaxTime
    /\ oPc = "waitForGame" => wLastPoll = now
    /\ now' = now + 1
    /\ UNCHANGED <<tokenVars, rendezvousVars, relayVars, limiterVars, bridgeVars, cancelled>>

RendezvousNext ==
    \/ \E allowed \in BOOLEAN : HandleCreate(allowed)
    \/ \E allowed \in BOOLEAN, input \in JoinInputs : HandleJoin(allowed, input)
    \/ \E id \in SessionIds : HandleStatus(id)
    \/ \E id \in SessionIds, token \in BearerTokens : HandleDelete(id, token)
    \/ StoreJanitor
    \/ Tick

\* the routes above and the relay's connection reports
StoreNext ==
    \/ RendezvousNext
    \/ \E id \in SessionIds, role \in Roles \cup {<<>>}, connected \in BOOLEAN :
          HandleConnect(id, role, connected)



(***************************************************************************)
(* C7: Join succeeds at most once per session. A step in which a join is   *)
(* answered with a joiner token starts from a session that has no joiner   *)
(* token and installs a token never drawn before; and a session's joiner   *)
(* token, once set, is the same in every later state of that session.      *)
(***************************************************************************)
JoinAtMostOnce ==
    [][/\ \A id \in DOMAIN sessions :
             (sessions[id].JoinToken # NoToken /\ id \in DOMAIN sessions')
             => sessions'[id].JoinToken = sessions[id].JoinToken
       /\ (lastResp'.op = "join" /\ lastResp'.status = 200 /\ minted' # minted)
          => (/\ lastResp'.sessionId \in DOMAIN sessions
              /\ sessions[lastResp'.sessionId].JoinToken = NoToken
              /\ sessions'[lastResp'.sessionId].JoinToken = lastResp'.bearer
              /\ lastResp'.bearer > minted)]_vars

\* a second join on a live session that has its joiner was refused
JoinAtMostOnceWitness ==
    /\ lastResp.op = "join"
    /\ lastResp.storeErr = "session already has a joiner"
    /\ \E id \in DOMAIN sessions : sessions[id].JoinToken # NoToken /\ ~Expired(sessions[id], now)

(***************************************************************************)
(* C8: POST /session/join tells its failures apart: an unknown or expired  *)
(* code is answered 404, a code whose live session already has a joiner is *)
(* answered 409.                                                           *)
(***************************************************************************)
JoinStatusByKind ==
    lastResp.op = "join" =>
        /\ lastResp.storeErr \in {"session not found", "session expired"}
           => lastResp.status = 404
        /\ lastResp.storeErr = "session already has a joiner"
           => lastResp.status = 409

(***************************************************************************)
(* C12: code-index invariant as claimed. Every live session is indexed by  *)
(* its code (byCodes[s.Code] = s.ID) and no two live sessions carry the    *)
(* same code, whatever codes the creates draw.                             *)
(***************************************************************************)
CodeIndexInvariant ==
    LET live == {id \in DOMAIN sessions : ~Expired(sessions[id], now)} IN
    /\ \A id \in live :
          /\ sessions[id].Code \in DOMAIN byCodes
          /\ byCodes[sessions[id].Code] = id
    /\ \A a, b \in live : sessions[a].Code = sessions[b].Code => a = b

(***************************************************************************)
(* C13: frame of a removal as claimed. A step that removes sessions (a     *)
(* delete or a janitor round) leaves no code-index entry pointing at a     *)
(* removed session, changes no other session's record and no code-index    *)
(* entry of another session, and afterwards neither the lookup by id nor   *)
(* a lookup or join by any code reaches a removed session.                 *)
(***************************************************************************)
RemovalFrame ==
    [][LET removed == DOMAIN sessions \ DOMAIN sessions' IN
       removed # {} =>
          /\ \A c \in DOMAIN byCodes' : byCodes'[c] \notin removed
          /\ \A o \in DOMAIN sessions' : sessions'[o] = sessions[o]
          /\ \A c \in DOMAIN byCodes :
                byCodes[c] \notin removed
                => (c \in DOMAIN byCodes' /\ byCodes'[c] = byCodes[c])
          /\ \A id \in removed :
                /\ ~StoreGetByID(sessions', id, now').ok
                /\ \A c \in Codes :
                      /\ StoreGetByCode(sessions', byCodes', c, now').session.ID # id
                      /\ StoreJoin(sessions', byCodes', c, minted' + 1, now').id # id]_vars

(***************************************************************************)
(* C14: an expired session is unreachable before the janitor removes it.   *)
(* In every state, for every session still in the store past its expiry,   *)
(* GetByID and GetByCode (under any code) do not return it, Join under any *)
(* code neither returns nor changes it, and ValidateToken is false for     *)
(* every token and role; a status, join or delete request answered 200     *)
(* names a session that was live when it was served (so status and join on *)
(* an expired session are answered 404); and a janitor round leaves no     *)
(* expired record and no code-index entry pointing at one.                 *)
(***************************************************************************)
ExpiredUnreachable ==
    /\ [](\A id \in DOMAIN sessions :
            Expired(sessions[id], now) =>
               /\ ~StoreGetByID(sessions, id, now).ok
               /\ \A c \in Codes \cup DOMAIN byCodes :
                     /\ StoreGetByCode(sessions, byCodes, c, now).session.ID # id
                     /\ StoreJoin(sessions, byCodes, c, minted + 1, now).id # id
                     /\ StoreJoin(sessions, byCodes, c, minted + 1, now).sessions[id]
                           = sessions[id]
               /\ \A token \in BearerTokens, role \in Roles :
                     ~StoreValidateToken(sessions, id, token, role, now))
    /\ [][/\ (lastResp' # lastResp /\ lastResp'.op \in {"status", "join", "delete"})
             => IF lastResp'.status = 200
                THEN /\ lastResp'.sessionId \in DOMAIN sessions
                     /\ ~Expired(sessions[lastResp'.sessionId], now)
                ELSE lastResp'.status \in {401, 403, 404, 429}
          /\ StoreJanitor =>
                \A id \in DOMAIN sessions :
                   Expired(sessions[id], now) =>
                      /\ id \notin DOMAIN sessions'
                      /\ \A c \in DOMAIN byCodes' : byCodes'[c] # id]_vars

\* a join under the code of an expired session the janitor has not removed
\* was refused
ExpiredUnreachableWitness ==
    /\ lastResp.op = "join"
    /\ lastResp.status = 404
    /\ lastResp.storeErr = "session expired"
    /\ \E id \in DOMAIN sessions :
          /\ Expired(sessions[id], now)
          /\ sessions[id].Code \in DOMAIN byCodes
          /\ byCodes[sessions[id].Code] = id

(***************************************************************************)
(* C15: status right after create. A status request for the session a      *)
(* create has just answered, served at the creation instant, is answered   *)
(* 200 with that session's id and with the expiresAt the create returned,  *)
(* which is the creation instant plus the TTL and lies strictly in the     *)
(* future.                                                                 *)
(***************************************************************************)
StatusAfterCreate ==
    [][(/\ lastResp.op = "create"
        /\ lastResp.status = 200
        /\ lastResp.sessionId \in DOMAIN sessions
        /\ sessions[lastResp.sessionId].CreatedAt = now
        /\ HandleStatus(lastResp.sessionId))
       => (/\ lastResp'.status = 200
           /\ lastResp'.sessionId = lastResp.sessionId
           /\ lastResp'.expiresAt = lastResp.expiresAt
           /\ lastResp'.expiresAt = now + SessionTTL
           /\ lastResp'.expiresAt > now')]_vars

StatusAfterCreateWitness ==
    /\ lastResp.op = "status"
    /\ lastResp.status = 200
    /\ lastResp.sessionId \in DOMAIN sessions
    /\ sessions[lastResp.sessionId].CreatedAt = now
    /\ lastResp.expiresAt = now + SessionTTL

(***************************************************************************)
(* C16: DELETE /session/{id} of the standalone server needs the session's  *)
(* host token. A request without a token is answered 401; a request with   *)
(* a token that is not the host token of session id (the joiner token, the *)
(* host token of another session, a token never issued) is answered 403;   *)
(* in both cases the store is unchanged. A delete request changes the      *)
(* store only if it carries the host token of a live session id, and then  *)
(* removes that session only.                                              *)
(***************************************************************************)
DeleteNeedsHostToken ==
    [][\A id \in SessionIds, token \in BearerTokens :
          (deployment = "standalone" /\ HandleDelete(id, token)) =>
             /\ token = NoToken
                => (lastResp'.status = 401 /\ UNCHANGED storeVars)
             /\ (token # NoToken
                 /\ ~(id \in DOMAIN sessions /\ sessions[id].HostToken = token))
                => (lastResp'.status = 403 /\ UNCHANGED storeVars)
             /\ ~(UNCHANGED storeVars)
                => (/\ id \in DOMAIN sessions
                    /\ ~Expired(sessions[id], now)
                    /\ token = sessions[id].HostToken
                    /\ lastResp'.status = 200
                    /\ DOMAIN sessions' = DOMAIN sessions \ {id})]_vars

\* a delete with a token the store has issued, but not as the host token of
\* the session named, was refused while that session was live
DeleteNeedsHostTokenWitness ==
    /\ deployment = "standalone"
    /\ lastResp.op = "delete"
    /\ lastResp.status = 403
    /\ \A id \in SessionIds : id \in DOMAIN sessions /\ ~Expired(sessions[id], now)
    /\ \E id \in DOMAIN sessions : sessions[id].JoinToken # NoToken

(***************************************************************************)
(* C18: a request the limiter refuses does no work. A create or join       *)
(* request with the limiter's verdict false is answered 429, with no       *)
(* session id, bearer token or relay token in the response, and leaves     *)
(* sessions, code index and the tokens drawn as they were; and every       *)
(* response 429 goes with an unchanged store.                              *)
(***************************************************************************)
RefusedDoesNoWork ==
    [][/\ (HandleCreate(FALSE) \/ \E input \in JoinInputs : HandleJoin(FALSE, input))
          => (/\ lastResp'.status = 429
              /\ lastResp'.sessionId = <<>>
              /\ lastResp'.bearer = NoToken
              /\ lastResp'.relayToken = <<>>
              /\ UNCHANGED storeVars)
       /\ (lastResp' # lastResp /\ lastResp'.status = 429) => UNCHANGED storeVars]_vars

\* a join was refused by the limiter while a live session had no joiner
RefusedDoesNoWorkWitness ==
    /\ lastResp.op = "join"
    /\ lastResp.status = 429
    /\ \E id \in DOMAIN sessions :
          /\ ~Expired(sessions[id], now)
          /\ sessions[id].JoinToken = NoToken
          /\ sessions[id].Code \in DOMAIN byCodes
          /\ byCodes[sessions[id].Code] = id

(***************************************************************************)
(* C19: the join code is case-insensitive and its dashes are optional.     *)
(* For every code the store indexes and every input made from it by        *)
(* changing the case of letters and removing dashes, the join handler      *)
(* hands Store.Join the code itself (XXXX-XXXX-XXXX), so the request       *)
(* is never answered as an unknown code and, when it succeeds, returns the *)
(* session indexed under the code.                                         *)
(***************************************************************************)
JoinCodeNormalized ==
    [][\A c \in DOMAIN byCodes, input \in JoinInputs :
          (ToUpper(StripDashes(input)) = StripDashes(c) /\ HandleJoin(TRUE, input)) =>
             /\ (IF deployment = "embedded" THEN NormalizeEmbedded(input)
                 ELSE NormalizeStandalone(input)) = c
             /\ lastResp'.storeErr # "session not found"
             /\ lastResp'.status = 200 => lastResp'.sessionId = byCodes[c]]_vars

(***************************************************************************)
(* ratelimit.Limiter: one token bucket (rate.Limiter) per client address,  *)
(* created full on the address's first request and deleted by doCleanup    *)
(* when the address has not been seen for the cleanup period. A clock tick *)
(* is the time the bucket takes to gain one token (6 s for create at       *)
(* 10/minute, 2 s for join at 30/minute), so a minute is PerMinute ticks.  *)
(***************************************************************************)
\* tokens a bucket gains per minute (10 for create, 30 for join)
PerMinute == 2
\* the bucket's capacity (3 for create, 10 for join)
Burst == 2
\* the cleanup period of NewLimiter, in minutes
CleanupMinutes == 3
CleanupAge == CleanupMinutes * PerMinute
\* the limiter's clock runs until a deleted bucket has been recreated and used
LimiterHorizon == CleanupAge + PerMinute + 2

Identities == {"ip1", "ip2"}

NoVerdict == [ip |-> "", ok |-> FALSE]

Min(a, b) == IF a < b THEN a ELSE b

\* rate.Limiter: the tokens of a bucket at time t (advance)
Advance(client, t) == Min(Burst, client.tokens + (t - client.last))

\* rate.NewLimiter at time t
NewBucket(t) == [tokens |-> Burst, last |-> t, lastSeen |-> t]

\* the bucket Limiter.Allow works on
ClientOf(lims, ip, t) == IF ip \in DOMAIN lims THEN lims[ip] ELSE NewBucket(t)

\* rate.Limiter.Allow at time t, with the lastSeen stamp of Limiter.Allow: [ok, client]
BucketAllow(client, t) ==
    LET tokens == Advance(client, t) IN
    IF tokens >= 1
    THEN [ok |-> TRUE, client |-> [tokens |-> tokens - 1, last |-> t, lastSeen |-> t]]
    ELSE [ok |-> FALSE, client |-> [client EXCEPT !.lastSeen = t]]

\* doCleanup's test with the threshold at the present instant
StaleNow(client, t) == client.lastSeen <= t

\* doCleanup's test with no horizon: the address was not seen at this instant
StaleAtOnce(client, t) == client.lastSeen < t

\* doCleanup's test: the address was last seen before the threshold
Stale(client, t) == client.lastSeen < t - CleanupAge

RECURSIVE SumSeq(_)
SumSeq(s) == IF s = <<>> THEN 0 ELSE Head(s) + SumSeq(Tail(s))

LimiterStart ==
    /\ limiters = EmptyMap
    /\ grants = [ip \in Identities |-> [k \in 1..(PerMinute + 1) |-> 0]]
    /\ verdict = NoVerdict
    /\ unswept = EmptyMap

LimiterInit == now = 0 /\ LimiterStart

\* the limiter is not running
LimiterIdle ==
    /\ limiters = EmptyMap
    /\ grants = EmptyMap
    /\ verdict = NoVerdict
    /\ unswept = EmptyMap

\* Limiter.Allow(ip)
LimiterAllow(ip) ==
    LET a == BucketAllow(ClientOf(limiters, ip, now), now) IN
    /\ limiters' = MapPut(limiters, ip, a.client)
    /\ verdict' = [ip |-> ip, ok |-> a.ok]
    /\ grants' = IF a.ok THEN [grants EXCEPT ![ip][1] = @ + 1] ELSE grants
    /\ unswept' = MapPut(unswept, ip, BucketAllow(ClientOf(unswept, ip, now), now).client)
    /\ UNCHANGED <<now, nonLimiterVars>>

\* Limiter.doCleanup, whenever the sweep runs
LimiterCleanup ==
    /\ limiters' = [ip \in {i \in DOMAIN limiters : ~Stale(limiters[i], now)} |-> limiters[ip]]
    /\ limiters' # limiters
    /\ UNCHANGED <<now, grants, verdict, unswept, nonLimiterVars>>

\* a tick passes; grants[ip][k] counts the requests of ip granted k-1 ticks ago
LimiterTick ==
    /\ now < LimiterHorizon
    /\ now' = now + 1
    /\ grants' = [ip \in Identities |->
                    [k \in 1..(PerMinute + 1) |-> IF k = 1 THEN 0 ELSE grants[ip][k - 1]]]
    /\ UNCHANGED <<limiters, verdict, unswept, nonLimiterVars>>

LimiterNext ==
    \/ \E ip \in Identities : LimiterAllow(ip)
    \/ LimiterCleanup
    \/ LimiterTick

(***************************************************************************)
(* C17: the limiter's bound. For each address, the requests granted within *)
(* any window of one minute (its two end instants included) number at most *)
(* rate * 60 + burst = PerMinute + Burst, whatever the order of requests   *)
(* and cleanup sweeps; and a request is granted only if the address's      *)
(* bucket holds at least one token at that time, and then takes exactly    *)
(* one token from it, while a refused request takes none.                  *)
(***************************************************************************)
GrantsBounded ==
    /\ [](\A ip \in Identities : SumSeq(grants[ip]) <= PerMinute + Burst)
    /\ [][\A ip \in Identities :
             LimiterAllow(ip) =>
                LET before == Advance(ClientOf(limiters, ip, now), now)
                    after == Advance(limiters'[ip], now)
                IN  /\ verdict'.ok => before >= 1
                    /\ after = (IF verdict'.ok THEN before - 1 ELSE before)
                    /\ SumSeq(grants'[ip]) =
                          SumSeq(grants[ip]) + (IF verdict'.ok THEN 1 ELSE 0)]_vars

\* an address has been granted the most a minute allows, later than a sweep can
\* first have deleted its bucket
GrantsBoundedWitness ==
    \E ip \in Identities :
       /\ SumSeq(grants[ip]) = PerMinute + Burst
       /\ now > CleanupAge + PerMinute

(***************************************************************************)
(* The relay: handshake, pairing and splice of HandleConnection, and the   *)
(* RelayClient at the other end of each connection.                        *)
(***************************************************************************)
\* the time a paired session may last (MAX_SESSION_HOURS), in clock ticks
MaxDuration == 1
\* the time a connection may wait for its peer (pairTimeout), in clock ticks
PairTimeout == 1
\* how many payload bytes a peer's bridge writes at most
MaxPayload == 2
\* the time HandleConnection gives a connection for its handshake (10 s), in
\* clock ticks
HandshakeTimeout == 1

\* the tokens the signaling server issues at time 0
IssuedTokens ==
    [sid \in SessionIds, role \in Roles |->
        CreateRelayToken(sid, role, SessionTTL, ServerSecret, 0)]

RelayTokenFor(sid, role) == IssuedTokens[sid, role]

NoFrame == [kind |-> "none", sessionId |-> <<>>, relayToken |-> <<>>, role |-> <<>>]

AuthMessage(sid, token, role) ==
    [kind |-> "json", sessionId |-> sid, relayToken |-> token, role |-> role]

\* what RelayClient.Connect sends for a peer that holds its own token
HonestFrames ==
    {AuthMessage(sid, RelayTokenFor(sid, role), role) : sid \in SessionIds, role \in Roles}

\* tokens a peer may present that were not issued to it for (sid, role): the
\* token of the other role, of the other session, one signed under another
\* secret, an issued token followed by a line feed, and the empty string
OtherTokens(sid, role) ==
    {RelayTokenFor(sid, r) : r \in Roles \ {role}}
    \cup {RelayTokenFor(s, role) : s \in SessionIds \ {sid}}
    \cup {CreateRelayToken(sid, role, SessionTTL, ServerSecret + 1, 0),
          Append(RelayTokenFor(sid, role), 10),
          <<>>}

\* everything a peer can put on the wire as its first frame: a JSON
\* AuthMessage, or bytes that decoder.Decode refuses (no frame at all among
\* them: the read deadline then fails Decode in the same way)
AnyFrames ==
    HonestFrames
    \cup UNION {{AuthMessage(sr[1], t, sr[2]) : t \in OtherTokens(sr[1], sr[2])} :
                   sr \in SessionIds \X Roles}
    \cup {[NoFrame EXCEPT !.kind = "malformed"]}

\* the first frames the peer described by client may send
Frames(client) ==
    {f \in IF client.tokens = "own" THEN HonestFrames
            ELSE IF client.tokens = "other" THEN AnyFrames \ HonestFrames
            ELSE AnyFrames :
        f.kind = "json" => (f.sessionId \in client.sids /\ f.role \in client.roles)}

Conns == DOMAIN clients

\* the k-th payload byte of the peer on connection c
PayloadByte(c, k) == 16 * c + k

\* NewRelay, before any connection is accepted; population names the peers
RelayStart(population) ==
    /\ clients = population
    /\ cPc = [c \in DOMAIN population |-> "idle"]
    /\ frame = [c \in DOMAIN population |-> NoFrame]
    /\ hPc = [c \in DOMAIN population |-> "none"]
    /\ reply = [c \in DOMAIN population |-> "none"]
    /\ pending = EmptyMap
    /\ deadline = [c \in DOMAIN population |-> 0]
    /\ connDeadline = [c \in DOMAIN population |-> 0]
    /\ sockClosed = [c \in DOMAIN population |-> FALSE]
    /\ splices = {}
    /\ copying = {}
    /\ paired = {}
    /\ written = [c \in DOMAIN population |-> 0]
    /\ rcvbuf = [c \in DOMAIN population |-> <<>>]
    /\ sndbuf = [c \in DOMAIN population |-> <<>>]
    /\ obtained = [c \in DOMAIN population |-> <<>>]
    /\ cancelled = FALSE

\* the relay starts at time 0
RelayInit(population) == now = 0 /\ RelayStart(population)

\* no relay runs
RelayIdle == RelayStart(<<>>)

\* RelayClient.Connect up to the write of the AuthMessage; the listener,
\* open until the context is cancelled, accepts the connection and starts
\* HandleConnection on it, which sets the handshake deadline on the socket
ClientConnect(c, f) ==
    /\ ~cancelled
    /\ cPc[c] = "idle"
    /\ f \in Frames(clients[c])
    /\ cPc' = [cPc EXCEPT ![c] = "awaiting"]
    /\ frame' = [frame EXCEPT ![c] = f]
    /\ hPc' = [hPc EXCEPT ![c] = "handshake"]
    /\ connDeadline' = [connDeadline EXCEPT ![c] = now + HandshakeTimeout]
    /\ UNCHANGED <<now, clients, written, obtained, reply, pending, deadline,
                   sockClosed, splices, copying, paired, wireVars, nonRelayVars>>

\* a peer opens the relay port and writes nothing; the listener accepts the
\* connection and HandleConnection sets the handshake deadline on the socket
ClientStall(c) ==
    /\ ~cancelled
    /\ cPc[c] = "idle"
    /\ cPc' = [cPc EXCEPT ![c] = "awaiting"]
    /\ hPc' = [hPc EXCEPT ![c] = "handshake"]
    /\ connDeadline' = [connDeadline EXCEPT ![c] = now + HandshakeTimeout]
    /\ UNCHANGED <<now, clients, frame, written, obtained, reply, pending, deadline,
                   sockClosed, splices, copying, paired, wireVars, nonRelayVars>>

\* RelayClient.Connect from reader.ReadBytes on: the bufio.Reader takes
\* whatever has arrived on the socket, the AuthResponse line and any bytes
\* behind it, and Connect keeps the bare conn only
ClientReadResponse(c) ==
    /\ cPc[c] = "awaiting"
    /\ reply[c] # "none" \/ sockClosed[c]
    /\ cPc' = [cPc EXCEPT ![c] = IF reply[c] = "ok" THEN "ready" ELSE "closed"]
    /\ sndbuf' = [sndbuf EXCEPT ![c] = <<>>]
    /\ UNCHANGED <<now, clients, frame, written, obtained, handlerVars, rcvbuf,
                   nonRelayVars>>

\* the bridge copies one byte of the game's stream to the relay connection
ClientWrite(c) ==
    /\ cPc[c] = "ready"
    /\ written[c] < clients[c].quota
    /\ ~sockClosed[c]
    /\ written' = [written EXCEPT ![c] = @ + 1]
    /\ rcvbuf' = [rcvbuf EXCEPT ![c] = Append(@, PayloadByte(c, written[c] + 1))]
    /\ UNCHANGED <<now, clients, cPc, frame, obtained, handlerVars, sndbuf,
                   nonRelayVars>>

\* the bridge reads what the relay connection holds
ClientRead(c) ==
    /\ cPc[c] = "ready"
    /\ sndbuf[c] # <<>>
    /\ obtained' = [obtained EXCEPT ![c] = @ \o sndbuf[c]]
    /\ sndbuf' = [sndbuf EXCEPT ![c] = <<>>]
    /\ UNCHANGED <<now, clients, cPc, frame, written, handlerVars, rcvbuf,
                   nonRelayVars>>

\* RelayClient.Close
ClientClose(c) ==
    /\ cPc[c] = "ready"
    /\ cPc' = [cPc EXCEPT ![c] = "closed"]
    /\ UNCHANGED <<now, clients, frame, written, obtained, handlerVars, wireVars,
                   nonRelayVars>>

\* Server.handleValidate after signer.Verify gave v: 401 for a token that does
\* not verify, 404 for a session the store does not have, 200 with the claims
validateAnswer(v, ss, t) ==
    IF v.err # "" THEN [status |-> 401, claims |-> NoClaims]
    ELSE IF ~StoreGetByID(ss, v.claims.sid, t).ok THEN [status |-> 404, claims |-> NoClaims]
    ELSE [status |-> 200, claims |-> v.claims]

\* Server.handleValidate of the signaling server at time t: the HTTP status,
\* and the claims of a token its signer verifies for a session its store has
handleValidate(token, ss, t) == validateAnswer(Verify(token, ServerSecret, t), ss, t)

\* tokenValidator.validateRemote after the POST: the answer r of
\* /internal/validate is taken as it comes
remoteResult(r) ==
    IF r.status = 200
    THEN [sessionID |-> r.claims.sid, role |-> r.claims.role, err |-> ""]
    ELSE [sessionID |-> <<>>, role |-> <<>>, err |-> "token validation failed"]

\* tokenValidator.validateRemote: POST /internal/validate on the signaling server
ValidateRemote(token, t) == remoteResult(handleValidate(token, sessions, t))

\* the validator that answers for every token, verified or not
ValidateUnverified(token, t) ==
    LET parts == IF Count(token, Dot[1]) = 1
                 THEN B64Decode(Take(token, IndexOf(token, Dot[1]) - 1))
                 ELSE [ok |-> FALSE, bytes |-> <<>>]
        c == IF parts.ok THEN UnmarshalClaims(parts.bytes) ELSE [ok |-> FALSE, claims |-> NoClaims]
    IN [sessionID |-> c.claims.sid, role |-> c.claims.role, err |-> ""]

\* tokenValidator.Validate after the local signer.Verify gave v: its claims
\* when it verified, the signaling server's answer when it did not
localOrRemote(v, token, t) ==
    IF v.err = ""
    THEN [sessionID |-> v.claims.sid, role |-> v.claims.role, err |-> ""]
    ELSE ValidateRemote(token, t)

\* tokenValidator.Validate of a relay whose signer holds secret: the local
\* signer first, the signaling server next
ValidateAs(token, secret, t) == localOrRemote(Verify(token, secret, t), token, t)

\* tokenValidator.Validate of the relay that shares the signaling server's
\* SIGNALING_SECRET
Validate(token, t) == ValidateAs(token, ServerSecret, t)

\* the comparison that looks at the session id only
ClaimsMatchSession(v, msg) == v.sessionID = msg.sessionId

\* HandleConnection: the validated claims against the frame's assertions
ClaimsMatch(v, msg) == ~(v.sessionID # msg.sessionId \/ v.role # msg.role)

\* HandleConnection up to sendAuthResponse: the text of the AuthResponse,
\* "ok" standing for success
AuthOutcome(msg, t) ==
    IF msg.kind # "json" THEN "Invalid auth message"
    ELSE LET v == Validate(msg.relayToken, t) IN
         IF v.err # "" THEN "Invalid token"
         ELSE IF ~ClaimsMatch(v, msg) THEN "Token mismatch"
         ELSE "ok"

\* the deadline set on the socket of connection c has passed at time t
DeadlinePassed(c, t) == connDeadline[c] # 0 /\ t > connDeadline[c]

\* HandleConnection that sets no deadline for the handshake: Decode waits
\* for a frame for ever
AuthenticateNoDeadline(c) ==
    /\ hPc[c] = "handshake"
    /\ frame[c].kind # "none"
    /\ LET out == AuthOutcome(frame[c], now) IN
        /\ reply' = [reply EXCEPT ![c] = out]
        /\ hPc' = [hPc EXCEPT ![c] = IF out = "ok" THEN "authenticated" ELSE "returned"]
        /\ sockClosed' = [sockClosed EXCEPT ![c] = (out # "ok")]
        /\ frame' = [frame EXCEPT ![c] = IF out = "ok" THEN @ ELSE NoFrame]
    /\ connDeadline' = [connDeadline EXCEPT ![c] = 0]
    /\ rcvbuf' = [rcvbuf EXCEPT ![c] = <<>>]
    /\ UNCHANGED <<now, clients, cPc, written, obtained, pending, deadline, splices,
                   copying, paired, sndbuf, nonRelayVars>>

\* HandleConnection from decoder.Decode to conn.SetDeadline(time.Time{}).  A
\* failure returns, and the deferred conn.Close() runs.  json.Decoder reads
\* the socket in blocks: payload bytes that arrived with the frame end up in
\* the decoder's buffer, which nothing reads afterwards.  A frame on the
\* wire is decoded as it is; with no frame Decode blocks and fails when the
\* handshake deadline passes, and so does the write of the failure envelope
\* (SetDeadline covers reads and writes).  The success path clears the
\* deadline.
Authenticate(c) ==
    /\ hPc[c] = "handshake"
    /\ frame[c].kind = "none" => DeadlinePassed(c, now)
    /\ connDeadline' = [connDeadline EXCEPT ![c] = 0]
    /\ LET out == AuthOutcome(frame[c], now) IN
        /\ reply' = [reply EXCEPT ![c] = IF frame[c].kind = "none" THEN "none" ELSE out]
        /\ hPc' = [hPc EXCEPT ![c] = IF out = "ok" THEN "authenticated" ELSE "returned"]
        /\ sockClosed' = [sockClosed EXCEPT ![c] = (out # "ok")]
        /\ frame' = [frame EXCEPT ![c] = IF out = "ok" THEN @ ELSE NoFrame]
    /\ rcvbuf' = [rcvbuf EXCEPT ![c] = <<>>]
    /\ UNCHANGED <<now, clients, cPc, written, obtained, pending, deadline, splices,
                   copying, paired, sndbuf, nonRelayVars>>

\* the pairing that splices with whatever connection waits under the session id
PairingDecisionAnyRole(pend, sid, role) ==
    IF sid \in DOMAIN pend THEN "splice" ELSE "install"

\* the pairing that never looks for a waiting peer
PairingDecisionBlind(pend, sid, role) == "install"

\* HandleConnection under r.mu: splice with a pending peer of the other
\* role, install as pending otherwise
PairingDecision(pend, sid, role) ==
    IF sid \in DOMAIN pend /\ pend[sid].Role # role THEN "splice" ELSE "install"

\* HandleConnection that installs the new entry without closing the
\* connection it displaces
PairKeepsDisplaced(c) ==
    /\ hPc[c] = "authenticated"
    /\ LET sid == frame[c].sessionId
           role == frame[c].role
       IN IF PairingDecision(pending, sid, role) = "splice"
          THEN LET peer == pending[sid].Conn
                   hostConn == IF role = RoleHost THEN c ELSE peer
                   joinerConn == IF role = RoleHost THEN peer ELSE c
               IN /\ pending' = MapDelete(pending, sid)
                  /\ splices' = splices \cup
                        {[sid |-> sid, by |-> c, hostConn |-> hostConn,
                          joinerConn |-> joinerConn, deadline |-> now + MaxDuration]}
                  /\ copying' = copying \cup {<<hostConn, joinerConn>>, <<joinerConn, hostConn>>}
                  /\ hPc' = [hPc EXCEPT ![c] = "splicing"]
                  /\ paired' = paired \cup {sid}
                  /\ connDeadline' = [connDeadline EXCEPT ![hostConn] = now + MaxDuration,
                                                          ![joinerConn] = now + MaxDuration]
                  /\ UNCHANGED <<sockClosed, deadline>>
          ELSE /\ pending' = MapPut(pending, sid, [Conn |-> c, Role |-> role, CreatedAt |-> now])
               /\ deadline' = [deadline EXCEPT ![c] = now + PairTimeout]
               /\ hPc' = [hPc EXCEPT ![c] = "waiting"]
               /\ UNCHANGED <<splices, copying, paired, connDeadline, sockClosed>>
    /\ UNCHANGED <<now, clientVars, reply, wireVars, nonRelayVars>>

\* HandleConnection from r.mu.Lock() to the start of pairConnections or of
\* waitForPair; the critical section is one step
Pair(c) ==
    /\ hPc[c] = "authenticated"
    /\ LET sid == frame[c].sessionId
           role == frame[c].role
       IN IF PairingDecision(pending, sid, role) = "splice"
          THEN LET peer == pending[sid].Conn
                   hostConn == IF role = RoleHost THEN c ELSE peer
                   joinerConn == IF role = RoleHost THEN peer ELSE c
               IN /\ pending' = MapDelete(pending, sid)
                  /\ splices' = splices \cup
                        {[sid |-> sid, by |-> c, hostConn |-> hostConn,
                          joinerConn |-> joinerConn, deadline |-> now + MaxDuration]}
                  /\ copying' = copying \cup {<<hostConn, joinerConn>>, <<joinerConn, hostConn>>}
                  /\ hPc' = [hPc EXCEPT ![c] = "splicing"]
                  /\ paired' = paired \cup {sid}
                  /\ connDeadline' = [connDeadline EXCEPT ![hostConn] = now + MaxDuration,
                                                          ![joinerConn] = now + MaxDuration]
                  /\ UNCHANGED <<sockClosed, deadline>>
          ELSE /\ sockClosed' = IF sid \in DOMAIN pending
                                THEN [sockClosed EXCEPT ![pending[sid].Conn] = TRUE]
                                ELSE sockClosed
               /\ pending' = MapPut(pending, sid, [Conn |-> c, Role |-> role, CreatedAt |-> now])
               /\ deadline' = [deadline EXCEPT ![c] = now + PairTimeout]
               /\ hPc' = [hPc EXCEPT ![c] = "waiting"]
               /\ UNCHANGED <<splices, copying, paired, connDeadline>>
    /\ UNCHANGED <<now, clientVars, reply, wireVars, nonRelayVars>>

\* waitForPair that returns on its deadline without deleting its entry
WaitForPairKeepsEntry(c) ==
    /\ hPc[c] = "waiting"
    /\ LET sid == frame[c].sessionId
           stillPending == sid \in DOMAIN pending /\ pending[sid].Conn = c
       IN ~stillPending \/ now > deadline[c]
    /\ hPc' = [hPc EXCEPT ![c] = "returned"]
    /\ deadline' = [deadline EXCEPT ![c] = 0]
    /\ sockClosed' = [sockClosed EXCEPT ![c] = TRUE]
    /\ UNCHANGED <<now, clientVars, reply, pending, connDeadline, splices, copying,
                   paired, wireVars, nonRelayVars>>

\* one round of the waitForPair loop that leaves the loop: the entry is gone
\* or belongs to another connection, or the deadline has passed and the entry,
\* if still this connection's, is deleted.  HandleConnection then returns and
\* the deferred conn.Close() runs.  (A round that sleeps changes nothing.)
WaitForPair(c) ==
    /\ hPc[c] = "waiting"
    /\ LET sid == frame[c].sessionId
           stillPending == sid \in DOMAIN pending /\ pending[sid].Conn = c
       IN /\ ~stillPending \/ now > deadline[c]
          /\ pending' = IF stillPending THEN MapDelete(pending, sid) ELSE pending
    /\ hPc' = [hPc EXCEPT ![c] = "returned"]
    /\ deadline' = [deadline EXCEPT ![c] = 0]
    /\ sockClosed' = [sockClosed EXCEPT ![c] = TRUE]
    /\ UNCHANGED <<now, clientVars, reply, connDeadline, splices, copying, paired,
                   wireVars, nonRelayVars>>

\* the pairConnections call that connection c is part of
SpliceOf(c) == CHOOSE s \in splices : c \in {s.hostConn, s.joinerConn}

\* io.Copy(dst, src) of pairConnections moves what it read from src to dst
CopyForward(src, dst) ==
    /\ <<src, dst>> \in copying
    /\ rcvbuf[src] # <<>>
    /\ ~sockClosed[src]
    /\ ~sockClosed[dst]
    /\ ~DeadlinePassed(src, now)
    /\ ~DeadlinePassed(dst, now)
    /\ sndbuf' = [sndbuf EXCEPT ![dst] = @ \o rcvbuf[src]]
    /\ rcvbuf' = [rcvbuf EXCEPT ![src] = <<>>]
    /\ UNCHANGED <<now, clientVars, handlerVars, nonRelayVars>>

\* io.Copy on sockets that carry no deadline: it returns on a close, an EOF
\* or a failed write only
CopyEndNoDeadline(src, dst) ==
    /\ <<src, dst>> \in copying
    /\ \/ sockClosed[src]
       \/ rcvbuf[src] = <<>> /\ cPc[src] = "closed"
       \/ rcvbuf[src] # <<>> /\ sockClosed[dst]
    /\ copying' = copying \ {<<src, dst>>}
    /\ sockClosed' = [sockClosed EXCEPT ![dst] = TRUE]
    /\ UNCHANGED <<now, clientVars, hPc, reply, pending, deadline, connDeadline, splices,
                   paired, wireVars, nonRelayVars>>

\* io.Copy(dst, src) returns: src was closed under it, the peer of src closed
\* (EOF), the write to dst failed, or the session deadline set on both
\* connections has passed; the goroutine then closes dst
CopyEnd(src, dst) ==
    /\ <<src, dst>> \in copying
    /\ \/ sockClosed[src]
       \/ rcvbuf[src] = <<>> /\ cPc[src] = "closed"
       \/ rcvbuf[src] # <<>> /\ sockClosed[dst]
       \/ DeadlinePassed(src, now)
       \/ DeadlinePassed(dst, now)
    /\ copying' = copying \ {<<src, dst>>}
    /\ sockClosed' = [sockClosed EXCEPT ![dst] = TRUE]
    /\ UNCHANGED <<now, clientVars, hPc, reply, pending, deadline, connDeadline, splices,
                   paired, wireVars, nonRelayVars>>

\* pairConnections that returns without closing the socket of its own
\* connection (HandleConnection without its deferred conn.Close())
SpliceReturnNoClose(c) ==
    /\ hPc[c] = "splicing"
    /\ LET s == SpliceOf(c) IN
         {<<s.hostConn, s.joinerConn>>, <<s.joinerConn, s.hostConn>>} \cap copying = {}
    /\ splices' = splices \ {SpliceOf(c)}
    /\ hPc' = [hPc EXCEPT ![c] = "returned"]
    /\ sockClosed' = [sockClosed EXCEPT ![c] = FALSE]
    /\ connDeadline' = [d \in DOMAIN connDeadline |->
                          IF d \in {SpliceOf(c).hostConn, SpliceOf(c).joinerConn}
                          THEN 0 ELSE connDeadline[d]]
    /\ UNCHANGED <<now, clientVars, reply, pending, deadline, copying, paired,
                   wireVars, nonRelayVars>>

\* wg.Wait() of pairConnections returns when both goroutines are done;
\* HandleConnection returns and the deferred conn.Close() runs
SpliceReturn(c) ==
    /\ hPc[c] = "splicing"
    /\ LET s == SpliceOf(c) IN
         {<<s.hostConn, s.joinerConn>>, <<s.joinerConn, s.hostConn>>} \cap copying = {}
    /\ splices' = splices \ {SpliceOf(c)}
    /\ hPc' = [hPc EXCEPT ![c] = "returned"]
    /\ sockClosed' = [sockClosed EXCEPT ![c] = TRUE]
    /\ connDeadline' = [d \in DOMAIN connDeadline |->
                          IF d \in {SpliceOf(c).hostConn, SpliceOf(c).joinerConn}
                          THEN 0 ELSE connDeadline[d]]
    /\ UNCHANGED <<now, clientVars, reply, pending, deadline, copying, paired,
                   wireVars, nonRelayVars>>

\* both ends of connection c are done with it: the peer closed it, its
\* HandleConnection returned and no splice holds it; the peer may dial again
ConnectionGone(c) ==
    /\ cPc[c] = "closed"
    /\ hPc[c] = "returned"
    /\ \A s \in splices : c \notin {s.hostConn, s.joinerConn}
    /\ cPc' = [cPc EXCEPT ![c] = "idle"]
    /\ hPc' = [hPc EXCEPT ![c] = "none"]
    /\ frame' = [frame EXCEPT ![c] = NoFrame]
    /\ reply' = [reply EXCEPT ![c] = "none"]
    /\ sockClosed' = [sockClosed EXCEPT ![c] = FALSE]
    /\ connDeadline' = [connDeadline EXCEPT ![c] = 0]
    /\ written' = [written EXCEPT ![c] = 0]
    /\ obtained' = [obtained EXCEPT ![c] = <<>>]
    /\ rcvbuf' = [rcvbuf EXCEPT ![c] = <<>>]
    /\ sndbuf' = [sndbuf EXCEPT ![c] = <<>>]
    /\ UNCHANGED <<now, clients, pending, deadline, splices, copying, paired,
                   nonRelayVars>>

\* Relay.cleanup that closes the stale connections and leaves their entries
RelayCleanupKeepsEntry ==
    LET stale == {sid \in DOMAIN pending : pending[sid].CreatedAt < now - PairTimeout} IN
    /\ stale # {}
    /\ \E sid \in stale : ~sockClosed[pending[sid].Conn]
    /\ sockClosed' = [c \in DOMAIN sockClosed |->
                        sockClosed[c] \/ \E sid \in stale : pending[sid].Conn = c]
    /\ UNCHANGED <<now, clientVars, hPc, reply, pending, deadline, connDeadline, splices,
                   copying, paired, wireVars, nonRelayVars>>

\* Relay.cleanup, run by cleanupLoop: entries older than pairTimeout are
\* closed and deleted
RelayCleanup ==
    LET stale == {sid \in DOMAIN pending : pending[sid].CreatedAt < now - PairTimeout} IN
    /\ stale # {}
    /\ sockClosed' = [c \in DOMAIN sockClosed |->
                        sockClosed[c] \/ \E sid \in stale : pending[sid].Conn = c]
    /\ pending' = [sid \in DOMAIN pending \ stale |-> pending[sid]]
    /\ UNCHANGED <<now, clientVars, hPc, reply, deadline, connDeadline, splices, copying,
                   paired, wireVars, nonRelayVars>>

\* the relay and its peers, but for the payload the peers exchange
ControlNext ==
    \/ \E c \in Conns : \E f \in Frames(clients[c]) : ClientConnect(c, f)
    \/ \E c \in Conns : ClientReadResponse(c)
    \/ \E c \in Conns : ClientClose(c)
    \/ \E c \in Conns : Authenticate(c)
    \/ \E c \in Conns : Pair(c)
    \/ \E c \in Conns : WaitForPair(c)
    \/ \E c, d \in Conns : CopyEnd(c, d)
    \/ \E c \in Conns : SpliceReturn(c)
    \/ \E c \in Conns : ConnectionGone(c)
    \/ RelayCleanup
    \/ Tick

\* the payload: what the bridges write and read, and what io.Copy moves
PayloadNext ==
    \/ \E c \in Conns : ClientWrite(c)
    \/ \E c \in Conns : ClientRead(c)
    \/ \E c, d \in Conns : CopyForward(c, d)

RelayNext == ControlNext \/ PayloadNext

\* runRelayServer when its context is cancelled: the listener is closed and
\* the accept loop returns
RootCancel ==
    /\ ~cancelled
    /\ cancelled' = TRUE
    /\ UNCHANGED <<now, tokenVars, rendezvousVars, relayVars, limiterVars, bridgeVars>>

\* the relay whose context may be cancelled at any time
ShutdownNext == RelayNext \/ RootCancel

\* the relay with peers that may open the port and stay silent
HandshakeNext == ControlNext \/ \E c \in Conns : ClientStall(c)


\* the error texts HandleConnection sends in a failure envelope
AuthFailures == {"Invalid auth message", "Invalid token", "Token mismatch"}

(***************************************************************************)
(* C1: pairing is serialized per session id.  Whenever an authenticated    *)
(* connection takes its pairing decision, either a connection of the       *)
(* opposite role is pending for its session id, and the step removes that  *)
(* entry and starts the splice of exactly these two connections, or the    *)
(* step installs the connection as the pending entry of its session id     *)
(* and starts no splice; no other connection decides in the same step.     *)
(* No connection is pending and spliced at once, and the pending entry of  *)
(* a session id (the table is a map, so there is at most one) is a         *)
(* connection of that session id in the role the entry records.            *)
(***************************************************************************)
PairingSerialized ==
    [][/\ \A c \in Conns :
            (hPc[c] = "authenticated" /\ hPc'[c] # "authenticated") =>
                LET sid == frame[c].sessionId
                    role == frame[c].role
                IN  /\ \A d \in Conns \ {c} : hPc'[d] = hPc[d]
                    /\ IF sid \in DOMAIN pending /\ pending[sid].Role # role
                       THEN LET peer == pending[sid].Conn IN
                            /\ sid \notin DOMAIN pending'
                            /\ hPc'[c] = "splicing"
                            /\ \E s \in splices' :
                                  /\ splices' = splices \cup {s}
                                  /\ s \notin splices
                                  /\ s.sid = sid
                                  /\ {s.hostConn, s.joinerConn} = {c, peer}
                                  /\ frame[s.hostConn].role = RoleHost
                                  /\ frame[s.joinerConn].role = RoleJoiner
                                  /\ {<<c, peer>>, <<peer, c>>} \subseteq copying'
                       ELSE /\ sid \in DOMAIN pending'
                            /\ pending'[sid] = [Conn |-> c, Role |-> role, CreatedAt |-> now]
                            /\ hPc'[c] = "waiting"
                            /\ splices' = splices
                            /\ copying' = copying
       /\ \A sid \in DOMAIN pending' :
            /\ \A s \in splices' : pending'[sid].Conn \notin {s.hostConn, s.joinerConn}
            /\ frame'[pending'[sid].Conn].sessionId = sid
            /\ frame'[pending'[sid].Conn].role = pending'[sid].Role]_vars

\* the joiner has spliced itself with the host that was pending, and the
\* host's handler has not yet looked at the pending table again
PairingSerializedWitness ==
    /\ hPc[1] = "waiting"
    /\ hPc[2] = "splicing"
    /\ \E s \in splices : s.by = 2 /\ s.hostConn = 1 /\ s.joinerConn = 2
    /\ pending = EmptyMap

(***************************************************************************)
(* C2: once two connections are paired, the relay closes neither socket    *)
(* until one copy direction of their splice has ended: while both          *)
(* directions of a splice are running, both of its sockets are open.       *)
(***************************************************************************)
PairedSocketsStayOpen ==
    \A s \in splices :
        {<<s.hostConn, s.joinerConn>>, <<s.joinerConn, s.hostConn>>} \subseteq copying
        => (~sockClosed[s.hostConn] /\ ~sockClosed[s.joinerConn])

(***************************************************************************)
(* C3: pairing is at most once per session id: no pairConnections call is  *)
(* made for a session id for which one was made before.                    *)
(***************************************************************************)
PairingAtMostOnce ==
    [][\A s \in splices' \ splices : s.sid \notin paired]_vars

(***************************************************************************)
(* C4: the splice is lossless and order-preserving in each direction: what *)
(* the bridge of a spliced peer has obtained from its relay connection is  *)
(* a prefix of the payload the other peer has written: its k-th byte is    *)
(* the k-th byte the other peer wrote.                                     *)
(***************************************************************************)
SpliceLossless ==
    \A s \in splices :
        \A d \in {<<s.hostConn, s.joinerConn>>, <<s.joinerConn, s.hostConn>>} :
            \A k \in 1..Len(obtained[d[2]]) :
                k <= written[d[1]] /\ obtained[d[2]][k] = PayloadByte(d[1], k)

(***************************************************************************)
(* C5: a connection whose handshake fails (no well-formed frame, a token   *)
(* that does not verify, or claims that differ from the asserted session   *)
(* id or role) is answered with a failure envelope and closed in the step  *)
(* that decides it, and that step changes neither the pending table nor    *)
(* the splices nor any other socket; a connection so answered is never     *)
(* pending and never spliced.                                              *)
(***************************************************************************)
HandshakeFailureEffect ==
    [][/\ \A c \in Conns :
            (reply[c] = "none" /\ reply'[c] # "none") =>
                LET msg == frame[c]
                    v == Verify(msg.relayToken, ServerSecret, now)
                    fails == \/ msg.kind # "json"
                             \/ v.err # ""
                             \/ v.claims.sid # msg.sessionId
                             \/ v.claims.role # msg.role
                IN  /\ fails => reply'[c] \in AuthFailures
                    /\ reply'[c] \in AuthFailures =>
                          /\ sockClosed'[c]
                          /\ hPc'[c] = "returned"
                          /\ \A d \in Conns \ {c} : sockClosed'[d] = sockClosed[d]
                          /\ pending' = pending
                          /\ splices' = splices
                          /\ copying' = copying
                          /\ paired' = paired
       /\ \A c \in Conns :
            reply'[c] \in AuthFailures =>
                /\ hPc'[c] = "returned"
                /\ \A sid \in DOMAIN pending' : pending'[sid].Conn # c
                /\ \A s \in splices' : c \notin {s.hostConn, s.joinerConn}
                /\ \A d \in Conns : <<c, d>> \notin copying' /\ <<d, c>> \notin copying']_vars

\* the third peer was refused while the host and the joiner were spliced
HandshakeFailureEffectWitness ==
    /\ reply[3] \in AuthFailures
    /\ sockClosed[3]
    /\ \E s \in splices : s.hostConn = 1 /\ s.joinerConn = 2
    /\ {<<1, 2>>, <<2, 1>>} \subseteq copying

(***************************************************************************)
(* C6: a connection is admitted (pending or spliced) under session id S    *)
(* and role R only if its token verified and carried sid = S and role = R, *)
(* the session id and role of its handshake frame; a token that verifies   *)
(* with other claims is answered "Token mismatch".                         *)
(***************************************************************************)
AdmissionRequiresMatchingToken ==
    [][/\ \A c \in Conns :
            (reply[c] = "none" /\ reply'[c] # "none") =>
                LET msg == frame[c]
                    v == Verify(msg.relayToken, ServerSecret, now)
                    matches == v.claims.sid = msg.sessionId /\ v.claims.role = msg.role
                IN  /\ reply'[c] = "ok" => (msg.kind = "json" /\ v.err = "" /\ matches)
                    /\ reply'[c] = "ok" => frame'[c] = msg
                    /\ (msg.kind = "json" /\ v.err = "" /\ ~matches)
                       => reply'[c] = "Token mismatch"
       /\ \A sid \in DOMAIN pending' :
            LET c == pending'[sid].Conn IN
            /\ reply'[c] = "ok"
            /\ frame'[c].sessionId = sid
            /\ frame'[c].role = pending'[sid].Role
       /\ \A s \in splices' :
            /\ reply'[s.hostConn] = "ok" /\ reply'[s.joinerConn] = "ok"
            /\ frame'[s.hostConn].sessionId = s.sid /\ frame'[s.hostConn].role = RoleHost
            /\ frame'[s.joinerConn].sessionId = s.sid /\ frame'[s.joinerConn].role = RoleJoiner
       /\ \A c \in Conns : (reply[c] = "ok" /\ reply'[c] = "ok") => frame'[c] = frame[c]]_vars

\* the host is pending with its own token, and the third peer, which claimed
\* to be the host with the joiner's token, was refused
AdmissionRequiresMatchingTokenWitness ==
    /\ <<97, 49>> \in DOMAIN pending
    /\ pending[<<97, 49>>].Conn = 1
    /\ reply[1] = "ok"
    /\ reply[3] = "Token mismatch"

(***************************************************************************)
(* The bridge of a peer: WaitForGame, ConnectRelay, the two copy loops and *)
(* Close, driven by the owner the way runHost and runLauncherHost do.      *)
(***************************************************************************)
\* the timeout the owner hands to WaitForGame (5 min), in clock ticks
GameTimeout == 1
\* how many bytes each copy loop reads at most
MaxBridgeBytes == 2

\* the game is not listening on the target address
NoGame == 0 - 1

\* the WaitForGame loop has not run a round
NoRound == 0 - 1

Directions == {"toLocal", "toRelay"}

\* the socket a copy loop writes
DstOf(d) == IF d = "toLocal" THEN "local" ELSE "relay"

\* the Stats counter a copy loop advances
CounterOf(d) == IF d = "toLocal" THEN "BytesIn" ELSE "BytesOut"

\* Bridge.setState: the state is assigned under b.mu; the callback, which the
\* owner registered right after NewBridge, is called after the unlock, and
\* only when the state has changed
setState(state) ==
    /\ bState' = state
    /\ callbacks' = IF bState # state
                    THEN Append(callbacks, [state |-> state, locked |-> FALSE])
                    ELSE callbacks

\* NewBridge; owner is what its owner is doing ("none": nobody made a bridge)
BridgeStart(owner) ==
    /\ bState = "INIT"
    /\ callbacks = <<>>
    /\ stopCh = FALSE
    /\ bConn = [s \in {"local", "relay"} |-> "nil"]
    /\ closeCalls = [Close |-> 0, stopCh |-> 0, local |-> 0, relay |-> 0]
    /\ stats = [BytesIn |-> 0, BytesOut |-> 0]
    /\ wrote = [local |-> 0, relay |-> 0]
    /\ fPc = [d \in Directions |-> "none"]
    /\ fBuf = [d \in Directions |-> 0]
    /\ wDeadline = 0
    /\ wLastPoll = NoRound
    /\ wResult = "none"
    /\ oPc = owner
    /\ gameUpSince = NoGame

\* a peer that has just made its bridge, at time 0
BridgeInit == now = 0 /\ BridgeStart("init")

\* no bridge was made
BridgeIdle == BridgeStart("none")

\* the game starts to listen on the target address
GameUp ==
    /\ gameUpSince = NoGame
    /\ gameUpSince' = now
    /\ UNCHANGED <<now, bState, callbacks, stopCh, bConn, closeCalls, stats, wrote, fPc, fBuf,
                   wDeadline, wLastPoll, wResult, oPc, nonBridgeVars>>

\* the game stops listening
GameDown ==
    /\ gameUpSince # NoGame
    /\ gameUpSince' = NoGame
    /\ UNCHANGED <<now, bState, callbacks, stopCh, bConn, closeCalls, stats, wrote, fPc, fBuf,
                   wDeadline, wLastPoll, wResult, oPc, nonBridgeVars>>

\* isPortListening: the dial succeeds when the game listens
isPortListening == gameUpSince # NoGame

\* the owner calls WaitForGame: the state is set and the deadline computed
WaitForGameCall ==
    /\ oPc = "init"
    /\ oPc' = "waitForGame"
    /\ setState("WAITING_FOR_GAME")
    /\ wDeadline' = now + GameTimeout
    /\ UNCHANGED <<now, stopCh, bConn, closeCalls, stats, wrote, fPc, fBuf, wLastPoll, wResult,
                   gameUpSince, nonBridgeVars>>

\* the owner goes without WaitForGame: runHost with -skip-wait, and
\* runLauncherHost, which probes the game port itself
SkipWait ==
    /\ oPc = "init"
    /\ oPc' = "idle"
    /\ UNCHANGED <<now, bState, callbacks, stopCh, bConn, closeCalls, stats, wrote, fPc, fBuf,
                   wDeadline, wLastPoll, wResult, gameUpSince, nonBridgeVars>>

\* WaitForGame that reports the game without probing for it
WaitForGamePollNoDial ==
    /\ oPc = "waitForGame"
    /\ IF stopCh
       THEN wResult' = "cancelled" /\ oPc' = "exited" /\ UNCHANGED <<bState, callbacks>>
       ELSE IF now > wDeadline
       THEN wResult' = "timeout" /\ oPc' = "exited" /\ UNCHANGED <<bState, callbacks>>
       ELSE wResult' = "ok" /\ oPc' = "idle" /\ setState("READY")
    /\ wLastPoll' = now
    /\ UNCHANGED <<now, stopCh, bConn, closeCalls, stats, wrote, fPc, fBuf, wDeadline,
                   gameUpSince, nonBridgeVars>>

\* one round of the WaitForGame loop that goes to sleep: the stop channel is
\* open, the deadline has not passed and the probe failed
WaitForGameSleep ==
    /\ oPc = "waitForGame"
    /\ wLastPoll # now
    /\ ~stopCh
    /\ ~(now > wDeadline)
    /\ ~isPortListening
    /\ wLastPoll' = now
    /\ UNCHANGED <<now, bState, callbacks, stopCh, bConn, closeCalls, stats, wrote, fPc, fBuf,
                   wDeadline, wResult, oPc, gameUpSince, nonBridgeVars>>

\* one round of the WaitForGame loop that leaves the loop: the stop channel
\* is closed, the deadline has passed, or the probe succeeded.  On an error
\* the owner gives up (log.Fatalf, or return).
WaitForGamePoll ==
    /\ oPc = "waitForGame"
    /\ IF stopCh
       THEN wResult' = "cancelled" /\ oPc' = "exited" /\ UNCHANGED <<bState, callbacks>>
       ELSE IF now > wDeadline
       THEN wResult' = "timeout" /\ oPc' = "exited" /\ UNCHANGED <<bState, callbacks>>
       ELSE /\ isPortListening
            /\ wResult' = "ok" /\ oPc' = "idle" /\ setState("READY")
    /\ wLastPoll' = now
    /\ UNCHANGED <<now, stopCh, bConn, closeCalls, stats, wrote, fPc, fBuf, wDeadline,
                   gameUpSince, nonBridgeVars>>

\* ConnectRelay up to net.DialTimeout
ConnectRelayCall ==
    /\ oPc = "idle"
    /\ oPc' = "connectRelay"
    /\ setState("CONNECTING_RELAY")
    /\ UNCHANGED <<now, stopCh, bConn, closeCalls, stats, wrote, fPc, fBuf, wDeadline, wLastPoll,
                   wResult, gameUpSince, nonBridgeVars>>

\* ConnectRelay from the result of net.DialTimeout on: an error ends in
\* StateError and the owner gives up; otherwise both sockets are stored and
\* the two copy loops start
ConnectRelayDial ==
    /\ oPc = "connectRelay"
    /\ IF isPortListening
       THEN /\ bConn' = [s \in {"local", "relay"} |-> "open"]
            /\ setState("CONNECTED")
            /\ fPc' = [d \in Directions |-> "loop"]
            /\ oPc' = "select"
       ELSE /\ setState("ERROR")
            /\ oPc' = "exited"
            /\ UNCHANGED <<bConn, fPc>>
    /\ UNCHANGED <<now, stopCh, closeCalls, stats, wrote, fBuf, wDeadline, wLastPoll, wResult,
                   gameUpSince, nonBridgeVars>>

\* Bridge.Close without the look at the stop channel
BridgeCloseAgain ==
    /\ stopCh' = TRUE
    /\ bConn' = [s \in {"local", "relay"} |-> IF bConn[s] = "nil" THEN "nil" ELSE "closed"]
    /\ closeCalls' = [Close |-> closeCalls.Close + 1,
                      stopCh |-> closeCalls.stopCh + 1,
                      local |-> closeCalls.local + (IF bConn.local = "nil" THEN 0 ELSE 1),
                      relay |-> closeCalls.relay + (IF bConn.relay = "nil" THEN 0 ELSE 1)]
    /\ bState' = "DISCONNECTED"
    /\ UNCHANGED callbacks

\* Bridge.Close, under b.mu: a call that finds the stop channel closed
\* returns; the first call closes it, closes the sockets the bridge holds and
\* sets the state
BridgeClose ==
    IF stopCh
    THEN /\ closeCalls' = [closeCalls EXCEPT !.Close = @ + 1]
         /\ UNCHANGED <<stopCh, bConn, bState, callbacks>>
    ELSE /\ stopCh' = TRUE
         /\ bConn' = [s \in {"local", "relay"} |-> IF bConn[s] = "nil" THEN "nil" ELSE "closed"]
         /\ closeCalls' = [Close |-> closeCalls.Close + 1,
                           stopCh |-> closeCalls.stopCh + 1,
                           local |-> closeCalls.local + (IF bConn.local = "nil" THEN 0 ELSE 1),
                           relay |-> closeCalls.relay + (IF bConn.relay = "nil" THEN 0 ELSE 1)]
         /\ bState' = "DISCONNECTED"
         /\ UNCHANGED callbacks

\* a copy loop that returns on a failed Read without calling Close
ForwardReadNoClose(d, n, eof) ==
    /\ fPc[d] = "loop"
    /\ IF stopCh \/ eof
       THEN /\ fPc' = [fPc EXCEPT ![d] = "done"]
            /\ UNCHANGED <<fBuf, stopCh, bConn, closeCalls, bState, callbacks>>
       ELSE /\ n \in 1..(MaxBridgeBytes - stats[CounterOf(d)])
            /\ fPc' = [fPc EXCEPT ![d] = "write"]
            /\ fBuf' = [fBuf EXCEPT ![d] = n]
            /\ UNCHANGED <<stopCh, bConn, closeCalls, bState, callbacks>>
    /\ UNCHANGED <<now, stats, wrote, wDeadline, wLastPoll, wResult, oPc, gameUpSince,
                   nonBridgeVars>>

\* a copy loop from the top of its round to the return of Read: with the
\* stop channel closed it returns (by the select, or by the Read that fails
\* on the closed socket and the Close that follows); otherwise Read hands
\* over n bytes, or fails or hits EOF (eof) and the loop calls Close and
\* returns
ForwardRead(d, n, eof) ==
    /\ fPc[d] = "loop"
    /\ IF stopCh
       THEN /\ fPc' = [fPc EXCEPT ![d] = "done"]
            /\ UNCHANGED <<fBuf, stopCh, bConn, closeCalls, bState, callbacks>>
       ELSE IF eof
       THEN /\ fPc' = [fPc EXCEPT ![d] = "done"]
            /\ BridgeClose
            /\ UNCHANGED fBuf
       ELSE /\ n \in 1..(MaxBridgeBytes - stats[CounterOf(d)])
            /\ fPc' = [fPc EXCEPT ![d] = "write"]
            /\ fBuf' = [fBuf EXCEPT ![d] = n]
            /\ UNCHANGED <<stopCh, bConn, closeCalls, bState, callbacks>>
    /\ UNCHANGED <<now, stats, wrote, wDeadline, wLastPoll, wResult, oPc, gameUpSince,
                   nonBridgeVars>>

\* a copy loop from the return of Read to the top of its next round: the
\* counter is advanced by the n bytes read, then they are written; the write
\* fails on a socket Close has closed and may fail otherwise (ok), and the
\* loop then calls Close and returns
ForwardWrite(d, ok) ==
    /\ fPc[d] = "write"
    /\ stats' = [stats EXCEPT ![CounterOf(d)] = @ + fBuf[d]]
    /\ fBuf' = [fBuf EXCEPT ![d] = 0]
    /\ IF ok /\ bConn[DstOf(d)] = "open"
       THEN /\ wrote' = [wrote EXCEPT ![DstOf(d)] = @ + fBuf[d]]
            /\ fPc' = [fPc EXCEPT ![d] = "loop"]
            /\ UNCHANGED <<stopCh, bConn, closeCalls, bState, callbacks>>
       ELSE /\ fPc' = [fPc EXCEPT ![d] = "done"]
            /\ BridgeClose
            /\ UNCHANGED wrote
    /\ UNCHANGED <<now, wDeadline, wLastPoll, wResult, oPc, gameUpSince, nonBridgeVars>>

\* the owner calls Close while the bridge forwards: runHost when its context
\* is cancelled, runLauncherHost when the game has exited
OwnerClose ==
    /\ oPc = "select"
    /\ oPc' = "done"
    /\ BridgeClose
    /\ UNCHANGED <<now, stats, wrote, fPc, fBuf, wDeadline, wLastPoll, wResult, gameUpSince,
                   nonBridgeVars>>

\* Bridge.Wait has returned: wg.Wait() found both copy loops done
WaitReturned == \A d \in Directions : fPc[d] = "done"

\* runHost sees Wait return and leaves without calling Close
OwnerDone ==
    /\ oPc = "select"
    /\ WaitReturned
    /\ oPc' = "done"
    /\ UNCHANGED <<now, bState, callbacks, stopCh, bConn, closeCalls, stats, wrote, fPc, fBuf,
                   wDeadline, wLastPoll, wResult, gameUpSince, nonBridgeVars>>

BridgeNext ==
    \/ GameUp
    \/ GameDown
    \/ WaitForGameCall
    \/ SkipWait
    \/ WaitForGameSleep
    \/ WaitForGamePoll
    \/ ConnectRelayCall
    \/ ConnectRelayDial
    \/ \E d \in Directions, n \in 1..MaxBridgeBytes, eof \in BOOLEAN : ForwardRead(d, n, eof)
    \/ \E d \in Directions, ok \in BOOLEAN : ForwardWrite(d, ok)
    \/ OwnerClose
    \/ OwnerDone
    \/ Tick

(***************************************************************************)
(* Specifications                                                          *)
(***************************************************************************)
\* the life cycle of one token
InitToken == TokenInit /\ RendezvousIdle /\ RelayIdle /\ LimiterIdle /\ BridgeIdle
SpecToken == InitToken /\ [][TokenNext]_vars

\* the rendezvous service: store, limiter and HTTP handlers
InitRendezvous == RendezvousInit /\ TokenIdle /\ RelayIdle /\ LimiterIdle /\ BridgeIdle
SpecRendezvous == InitRendezvous /\ [][RendezvousNext]_vars

\* the standalone signaling server with the connection reports of the relay
InitStore == RendezvousInit /\ deployment = "standalone" /\ TokenIdle /\ RelayIdle /\ LimiterIdle /\ BridgeIdle
SpecStore == InitStore /\ [][StoreNext]_vars

\* the rate limiter of one operation class
InitLimiter == LimiterInit /\ TokenIdle /\ RendezvousIdle /\ RelayIdle /\ BridgeIdle
SpecLimiter == InitLimiter /\ [][LimiterNext]_vars

\* the peer that holds the token of role in session sid and writes quota bytes
Peer(sid, role, quota) ==
    [sids |-> {sid}, roles |-> {role}, tokens |-> "own", quota |-> quota]

\* the peer that asserts role in session sid with any token but its own
Intruder(sid, role) ==
    [sids |-> {sid}, roles |-> {role}, tokens |-> "other", quota |-> 0]

\* handshake and pairing: the host and the joiner of one session, and a
\* third peer that claims to be the host with tokens that are not the host's
AdmissionPopulation ==
    <<Peer(<<97, 49>>, RoleHost, 0), Peer(<<97, 49>>, RoleJoiner, 0),
      Intruder(<<97, 49>>, RoleHost)>>
InitAdmission == RelayInit(AdmissionPopulation) /\ TokenIdle /\ RendezvousIdle /\ LimiterIdle /\ BridgeIdle
SpecAdmission == InitAdmission /\ [][ControlNext]_vars

\* the splice: the host and the joiner of one session exchange payload
SplicePopulation ==
    <<Peer(<<97, 49>>, RoleHost, MaxPayload), Peer(<<97, 49>>, RoleJoiner, 1)>>
InitSplice == RelayInit(SplicePopulation) /\ TokenIdle /\ RendezvousIdle /\ LimiterIdle /\ BridgeIdle
SpecSplice == InitSplice /\ [][RelayNext]_vars

\* the pair timeout: the host and the joiner of one session come and go; the
\* waitForPair loop of each connection polls every 100 ms and the janitor's
\* ticker fires every 10 s, so neither waits forever once it can act
PairTimeoutPopulation ==
    <<Peer(<<97, 49>>, RoleHost, 0), Peer(<<97, 49>>, RoleJoiner, 0)>>
InitPairTimeout ==
    RelayInit(PairTimeoutPopulation) /\ TokenIdle /\ RendezvousIdle /\ LimiterIdle /\ BridgeIdle
SpecPairTimeout ==
    /\ InitPairTimeout
    /\ [][ControlNext]_vars
    /\ \A c \in DOMAIN PairTimeoutPopulation : WF_vars(WaitForPair(c))
    /\ WF_vars(RelayCleanup)

\* HandleConnection of a connection without a frame: Decode returns when the
\* handshake deadline wakes it
HandshakeExpire(c) == frame[c].kind = "none" /\ Authenticate(c)

\* the relay with a host and a joiner of one session, either of which may
\* stay silent after connecting; a goroutine blocked in Decode runs when
\* its deadline fires
InitHandshake ==
    /\ RelayInit(PairTimeoutPopulation)
    /\ TokenIdle
    /\ RendezvousIdle
    /\ LimiterIdle
    /\ BridgeIdle

SpecHandshake ==
    /\ InitHandshake
    /\ [][HandshakeNext]_vars
    /\ \A c \in DOMAIN PairTimeoutPopulation : WF_vars(HandshakeExpire(c))

\* the splice under its deadline: the host and the joiner of one session
\* exchange payload; the copy goroutines and pairConnections run whenever
\* they can
InitSessionDeadline ==
    /\ RelayInit(SplicePopulation)
    /\ TokenIdle
    /\ RendezvousIdle
    /\ LimiterIdle
    /\ BridgeIdle

SpecSessionDeadline ==
    /\ InitSessionDeadline
    /\ [][RelayNext]_vars
    /\ \A c, d \in DOMAIN SplicePopulation : WF_vars(CopyEnd(c, d))
    /\ \A c \in DOMAIN SplicePopulation : WF_vars(SpliceReturn(c))

\* one peer's bridge and the game it fronts; the relay is not part of it
InitBridge ==
    /\ BridgeInit
    /\ TokenIdle
    /\ RendezvousIdle
    /\ LimiterIdle
    /\ RelayIdle

SpecBridge == InitBridge /\ [][BridgeNext]_vars

\* a copy loop whose sockets Close has closed: its Read or Write returns
LoopWakes(d) ==
    /\ stopCh
    /\ \/ \E n \in 1..MaxBridgeBytes, eof \in BOOLEAN : ForwardRead(d, n, eof)
       \/ \E ok \in BOOLEAN : ForwardWrite(d, ok)

\* the bridge whose goroutines keep running: WaitForGame polls every 500 ms,
\* and a copy loop returns from a Read or a Write on a closed socket
SpecBridgeFair ==
    /\ InitBridge
    /\ [][BridgeNext]_vars
    /\ WF_vars(WaitForGamePoll)
    /\ \A d \in Directions : WF_vars(LoopWakes(d))

\* the relay server as runServer and runLauncherHost run it, under a context
\* they cancel
InitShutdown ==
    /\ RelayInit(SplicePopulation)
    /\ TokenIdle
    /\ RendezvousIdle
    /\ LimiterIdle
    /\ BridgeIdle

SpecShutdown == InitShutdown /\ [][ShutdownNext]_vars

\* the bridge as its exported methods allow it to be used: a caller that
\* still holds the bridge after Close, or after a call that failed, calls
\* WaitForGame or ConnectRelay on it again
\* how many state changes the callback has seen at most when a caller calls again
MaxCallbacks == 4

CallerAgain ==
    /\ oPc \in {"done", "exited"}
    /\ \A d \in Directions : fPc[d] \in {"none", "done"}
    /\ Len(callbacks) <= MaxCallbacks
    /\ oPc' = "init"
    /\ wResult' = "none"
    /\ wLastPoll' = NoRound
    /\ UNCHANGED <<now, bState, callbacks, stopCh, bConn, closeCalls, stats, wrote, fPc, fBuf,
                   wDeadline, gameUpSince, nonBridgeVars>>

BridgeApiNext == BridgeNext \/ CallerAgain

SpecBridgeApi == InitBridge /\ [][BridgeApiNext]_vars

\* HandleConnection hands the token of a peer's AuthMessage to the validator:
\* here the relay token the rendezvous issued last, at any time after
RelayValidate ==
    /\ lastResp.op \in {"create", "join"}
    /\ lastResp.status = 200
    /\ LET v == ValidateAs(lastResp.relayToken, tkVerifier, now) IN
         tkResult' = [err |-> v.err,
                      claims |-> [sid |-> v.sessionID, role |-> v.role, exp |-> 0]]
    /\ tkToken' = lastResp.relayToken
    /\ tkPhase' = "validated"
    /\ UNCHANGED <<now, tkClaims, tkSecret, tkVerifier, tkMutated, nonTokenVars>>

ValidateNext ==
    \/ \E allowed \in BOOLEAN : HandleCreate(allowed)
    \/ \E allowed \in BOOLEAN, input \in JoinInputs : HandleJoin(allowed, input)
    \/ StoreJanitor
    \/ Tick
    \/ RelayValidate

\* the standalone relay next to the standalone signaling server; each reads
\* its SIGNALING_SECRET from its own environment
InitValidate ==
    /\ RendezvousInit
    /\ deployment = "standalone"
    /\ tkPhase = "idle"
    /\ tkClaims = NoClaims
    /\ tkSecret = ServerSecret
    /\ tkVerifier \in Secrets
    /\ tkToken = <<>>
    /\ tkMutated = FALSE
    /\ tkResult = NoResult
    /\ RelayIdle
    /\ LimiterIdle
    /\ BridgeIdle

SpecValidate == InitValidate /\ [][ValidateNext]_vars

\* every way a connection ends: the host of one session and a peer that
\* comes as its joiner or as a second host, either of which may stay silent
\* after connecting; a handler blocked in Decode, in waitForPair or in
\* wg.Wait, and a copy goroutine blocked in Read, runs when it can
LeakPopulation ==
    <<Peer(<<97, 49>>, RoleHost, 0),
      [sids |-> {<<97, 49>>}, roles |-> Roles, tokens |-> "own", quota |-> 0]>>

InitNoLeak ==
    /\ RelayInit(LeakPopulation)
    /\ TokenIdle
    /\ RendezvousIdle
    /\ LimiterIdle
    /\ BridgeIdle

SpecNoLeak ==
    /\ InitNoLeak
    /\ [][HandshakeNext]_vars
    /\ \A c \in DOMAIN LeakPopulation : WF_vars(HandshakeExpire(c))
    /\ \A c \in DOMAIN LeakPopulation : WF_vars(Pair(c))
    /\ \A c \in DOMAIN LeakPopulation : WF_vars(WaitForPair(c))
    /\ \A c, d \in DOMAIN LeakPopulation : WF_vars(CopyEnd(c, d))
    /\ \A c \in DOMAIN LeakPopulation : WF_vars(SpliceReturn(c))

(***************************************************************************)
(* C20: pair timeout. Once the pair timeout of a pending connection has    *)
(* passed, the relay eventually has its entry removed and its socket       *)
(* closed (by its waiting handler or by the janitor), whether or not a     *)
(* peer still arrives; a pending entry is taken away with nothing put in   *)
(* its place only by a pairing or after the pair timeout; every pending    *)
(* entry belongs to a connection whose handler is waiting and whose socket *)
(* the relay has not closed; so a connection arriving after the removal    *)
(* finds no entry of the timed-out socket: it is installed as pending, and *)
(* a step that splices takes the pending peer from the table.              *)
(***************************************************************************)
PairTimeoutReaps ==
    /\ \A c \in DOMAIN PairTimeoutPopulation :
          (/\ frame[c].sessionId \in DOMAIN pending
           /\ pending[frame[c].sessionId].Conn = c
           /\ now > deadline[c])
          ~> (/\ ~(/\ frame[c].sessionId \in DOMAIN pending
                   /\ pending[frame[c].sessionId].Conn = c)
              /\ sockClosed[c])
    /\ [](\A sid \in DOMAIN pending :
             /\ hPc[pending[sid].Conn] = "waiting"
             /\ ~sockClosed[pending[sid].Conn]
             /\ frame[pending[sid].Conn].sessionId = sid)
    /\ [][/\ \A sid \in DOMAIN pending \ DOMAIN pending' :
                \/ sid \in paired' /\ splices' # splices
                \/ /\ now > pending[sid].CreatedAt + PairTimeout
                   /\ sockClosed'[pending[sid].Conn]
          /\ \A c \in Conns :
                (hPc[c] = "authenticated" /\ hPc'[c] \in {"waiting", "splicing"}) =>
                   LET sid == frame[c].sessionId IN
                   IF sid \in DOMAIN pending /\ pending[sid].Role # frame[c].role
                   THEN /\ hPc'[c] = "splicing"
                        /\ \E s \in splices' \ splices :
                              {s.hostConn, s.joinerConn} = {c, pending[sid].Conn}
                   ELSE /\ hPc'[c] = "waiting"
                        /\ pending'[sid].Conn = c
                        /\ splices' = splices]_vars

\* the host's entry was reaped unpaired, and the joiner, arriving later, is
\* installed as pending
PairTimeoutReapsWitness ==
    \E c, d \in Conns :
       /\ paired = {}
       /\ hPc[c] = "returned"
       /\ reply[c] = "ok"
       /\ sockClosed[c]
       /\ frame[d].sessionId = frame[c].sessionId
       /\ frame[d].role # frame[c].role
       /\ frame[d].sessionId \in DOMAIN pending
       /\ pending[frame[d].sessionId].Conn = d
       /\ pending[frame[d].sessionId].CreatedAt > 0

(***************************************************************************)
(* C21: handshake stall. A connection the relay accepted that sends no     *)
(* frame is closed by its HandleConnection once the handshake deadline has *)
(* passed: the connection stays open until then, the step that ends it     *)
(* closes its socket and changes neither the pending table nor a splice,   *)
(* and no pending entry ever names a connection without a frame. After a   *)
(* successful handshake no deadline is left on the socket, and a parked    *)
(* connection is closed only when its pair timeout has passed or its entry *)
(* is no longer its own.                                                   *)
(***************************************************************************)
Stalled(c) == hPc[c] = "handshake" /\ frame[c].kind = "none"

Parked(c) ==
    /\ hPc[c] = "waiting"
    /\ frame[c].sessionId \in DOMAIN pending
    /\ pending[frame[c].sessionId].Conn = c

HandshakeStall ==
    /\ \A c \in DOMAIN PairTimeoutPopulation :
          (Stalled(c) /\ DeadlinePassed(c, now)) ~> (hPc[c] = "returned" /\ sockClosed[c])
    /\ [](\A c \in Conns : (hPc[c] = "authenticated" \/ Parked(c)) => connDeadline[c] = 0)
    /\ [](\A sid \in DOMAIN pending : frame[pending[sid].Conn].kind = "json")
    /\ [][\A c \in Conns :
            /\ Stalled(c) =>
                 IF hPc'[c] = "handshake"
                 THEN ~sockClosed'[c]
                 ELSE /\ DeadlinePassed(c, now)
                      /\ hPc'[c] = "returned"
                      /\ sockClosed'[c]
                      /\ reply'[c] # "ok"
                      /\ pending' = pending
                      /\ splices' = splices
            /\ (hPc[c] = "waiting" /\ ~sockClosed[c] /\ sockClosed'[c]) =>
                 \/ now > deadline[c]
                 \/ ~Parked(c)
                 \/ pending'[frame[c].sessionId].Conn # c]_vars

\* a silent connection was closed on its handshake deadline while the other
\* connection, authenticated before, is still parked with its socket open
HandshakeStallWitness ==
    \E c, d \in Conns :
       /\ c # d
       /\ hPc[c] = "returned"
       /\ reply[c] = "none"
       /\ sockClosed[c]
       /\ Parked(d)
       /\ ~sockClosed[d]
       /\ connDeadline[d] = 0
       /\ now > HandshakeTimeout

(***************************************************************************)
(* C22: same-role displacement. When an authenticated connection arrives   *)
(* for a session id whose pending entry has its own role, one step closes  *)
(* the socket of the connection waiting there and makes the arriving       *)
(* connection the entry of that session id: no entry names the displaced   *)
(* connection any more, no other entry and no splice changes. A connection *)
(* that waits or has returned without an entry and without a splice is     *)
(* never taken into a splice.                                              *)
(***************************************************************************)
InSplice(c) == \E s \in splices : c \in {s.hostConn, s.joinerConn}

SameRoleDisplacement ==
    [][/\ \A c \in Conns :
            LET sid == frame[c].sessionId IN
            (/\ hPc[c] = "authenticated"
             /\ hPc'[c] # "authenticated"
             /\ sid \in DOMAIN pending
             /\ pending[sid].Role = frame[c].role) =>
               /\ hPc'[c] = "waiting"
               /\ sockClosed'[pending[sid].Conn]
               /\ ~sockClosed'[c]
               /\ DOMAIN pending' = DOMAIN pending
               /\ pending'[sid].Conn = c
               /\ pending'[sid].Role = frame[c].role
               /\ \A s \in DOMAIN pending' :
                     /\ pending'[s].Conn # pending[sid].Conn
                     /\ s # sid => pending'[s] = pending[s]
               /\ splices' = splices
               /\ copying' = copying
       /\ \A d \in Conns :
            (hPc[d] \in {"waiting", "returned"} /\ ~Parked(d) /\ ~InSplice(d)) =>
               ~(\E s \in splices' : d \in {s.hostConn, s.joinerConn})]_vars

\* before any timeout can have fired, a connection waits with its socket
\* closed and without entry while another of the same session and role holds
\* the entry
SameRoleDisplacementWitness ==
    \E c, d \in Conns :
       /\ c # d
       /\ now = 0
       /\ Parked(c)
       /\ ~sockClosed[c]
       /\ hPc[d] = "waiting"
       /\ frame[d].sessionId = frame[c].sessionId
       /\ frame[d].role = frame[c].role
       /\ sockClosed[d]
       /\ ~InSplice(d)

(***************************************************************************)
(* C23: max-session deadline. The step that starts a splice puts one       *)
(* deadline, the start time plus the maximum session duration, on the      *)
(* sockets of both connections, and both keep it while the splice runs;    *)
(* nothing is forwarded past it; once it has passed, both copy directions  *)
(* end, pairConnections returns and both sockets are closed.               *)
(***************************************************************************)
SessionDeadline ==
    /\ \A c \in DOMAIN SplicePopulation :
          (InSplice(c) /\ DeadlinePassed(c, now)) ~> (~InSplice(c) /\ sockClosed[c])
    /\ [](\A s \in splices :
             /\ connDeadline[s.hostConn] = s.deadline
             /\ connDeadline[s.joinerConn] = s.deadline)
    /\ [][/\ \A s \in splices' \ splices :
                /\ s.deadline = now + MaxDuration
                /\ connDeadline'[s.hostConn] = now + MaxDuration
                /\ connDeadline'[s.joinerConn] = now + MaxDuration
          /\ \A s \in splices :
                now > s.deadline =>
                   /\ sndbuf'[s.hostConn] \in {sndbuf[s.hostConn], <<>>}
                   /\ sndbuf'[s.joinerConn] \in {sndbuf[s.joinerConn], <<>>}
          /\ \A s \in splices \ splices' :
                /\ sockClosed'[s.hostConn]
                /\ sockClosed'[s.joinerConn]
                /\ \A p \in copying' : p[1] \notin {s.hostConn, s.joinerConn}]_vars

\* the deadline of a splice has passed with both peers still connected and
\* the handler of the connection that waited not yet back from waitForPair:
\* one copy direction has ended, which closed the first of the two sockets
SessionDeadlineWitness ==
    \E s \in splices :
       LET other == IF s.by = s.hostConn THEN s.joinerConn ELSE s.hostConn IN
       /\ now > s.deadline
       /\ cPc[s.hostConn] = "ready"
       /\ cPc[s.joinerConn] = "ready"
       /\ hPc[other] = "waiting"
       /\ sockClosed[s.hostConn] # sockClosed[s.joinerConn]
       /\ Cardinality(copying) = 1
       /\ \A p \in copying : sockClosed[p[1]] /\ ~sockClosed[p[2]]

(***************************************************************************)
(* C24: bridge timeout. When WaitForGame has returned its timeout error,   *)
(* the wait deadline has passed and the bridge is in state ERROR.          *)
(***************************************************************************)
BridgeTimeout == wResult = "timeout" => (now > wDeadline /\ bState = "ERROR")

(***************************************************************************)
(* C25: when a copy loop has ended, the bridge ends up with both sockets   *)
(* closed, both copy loops ended (Wait returns) and in state DISCONNECTED: *)
(* the step that ends the first loop closes the stop channel and both      *)
(* sockets and sets the state, and the other loop, woken by the close,     *)
(* ends too.                                                               *)
(***************************************************************************)
BridgeClosed ==
    /\ stopCh
    /\ bConn = [s \in {"local", "relay"} |-> "closed"]
    /\ bState = "DISCONNECTED"

EitherEndStops ==
    /\ (\E d \in Directions : fPc[d] = "done") ~> (WaitReturned /\ BridgeClosed)
    /\ []((\E d \in Directions : fPc[d] = "done") => BridgeClosed)
    /\ [][\A d \in Directions :
            (fPc[d] # "done" /\ fPc'[d] = "done") =>
               /\ fPc[d] \in {"loop", "write"}
               /\ BridgeClosed']_vars

\* both copy loops have ended, the first on its own and the second by the
\* close that followed, while the owner has not called Close
EitherEndStopsWitness ==
    /\ WaitReturned
    /\ BridgeClosed
    /\ oPc = "select"
    /\ closeCalls.Close = 1

(***************************************************************************)
(* C26: the byte counters never decrease, and each equals the number of    *)
(* bytes written without error to its socket: BytesIn to the local socket, *)
(* BytesOut to the relay socket.                                           *)
(***************************************************************************)
CountersExact ==
    /\ stats.BytesIn = wrote.local
    /\ stats.BytesOut = wrote.relay

(***************************************************************************)
(* C27: Close is idempotent. However the copy loops and the owner call it, *)
(* the stop channel is closed at most once and each socket is closed at    *)
(* most once by Close; once Close has run, the stop channel and both       *)
(* sockets have been closed exactly once and the state is DISCONNECTED.    *)
(***************************************************************************)
CloseOnce ==
    /\ closeCalls.stopCh <= 1
    /\ closeCalls.local <= 1
    /\ closeCalls.relay <= 1
    /\ closeCalls.Close >= 1 =>
          /\ closeCalls.stopCh = 1
          /\ closeCalls.local = 1
          /\ closeCalls.relay = 1
          /\ BridgeClosed

\* both copy loops and the owner have called Close
CloseOnceWitness ==
    /\ closeCalls.Close = 3
    /\ oPc = "done"
    /\ WaitReturned

(***************************************************************************)
(* C28, as the claim has it: WaitForGame never returns its timeout error   *)
(* when the game came up before the wait deadline and has stayed up.       *)
(***************************************************************************)
ListenerBeforeDeadlineReady ==
    wResult = "timeout" => ~(gameUpSince # NoGame /\ gameUpSince <= wDeadline)

(***************************************************************************)
(* C28, amended: WaitForGame puts the bridge in WAITING_FOR_GAME and keeps *)
(* it there while it polls. A poll that runs before the wait deadline with *)
(* the game listening moves the bridge to READY and returns success, and   *)
(* nothing else makes the bridge READY; a poll that runs after the         *)
(* deadline returns the timeout error. While the game listens and the      *)
(* deadline has not passed, WaitForGame eventually returns success, unless *)
(* the game goes down or the deadline passes first.                        *)
(***************************************************************************)
ProbeLeadsReady ==
    /\ (oPc = "waitForGame" /\ isPortListening /\ now <= wDeadline)
          ~> (wResult = "ok" \/ ~isPortListening \/ now > wDeadline)
    /\ [](oPc = "waitForGame" => bState = "WAITING_FOR_GAME" /\ wResult = "none")
    /\ [][/\ (bState' = "READY" /\ bState # "READY") =>
                /\ oPc = "waitForGame"
                /\ isPortListening
                /\ now <= wDeadline
                /\ wResult' = "ok"
          /\ (wResult = "none" /\ wResult' = "ok") => bState' = "READY"
          /\ (wResult = "none" /\ wResult' = "timeout") =>
                (now > wDeadline /\ bState' = bState)]_vars

\* the game came up while WaitForGame polled, and the poll that followed,
\* before the deadline, made the bridge READY
ProbeLeadsReadyWitness ==
    /\ bState = "READY"
    /\ wResult = "ok"
    /\ gameUpSince > 0
    /\ gameUpSince <= wDeadline
    /\ now <= wDeadline

(***************************************************************************)
(* C29: ConnectRelay is entered in state READY only, and the copy loops    *)
(* start only on a bridge for which WaitForGame has reported the game.     *)
(***************************************************************************)
AttachOnlyWhenReady ==
    [][/\ (bState' = "CONNECTING_RELAY" /\ bState # "CONNECTING_RELAY") => bState = "READY"
       /\ (\E d \in Directions : fPc[d] = "none" /\ fPc'[d] # "none") => wResult = "ok"]_vars

(***************************************************************************)
(* C30: cancellation. Once the root context is cancelled, a connection     *)
(* that is in its handshake is not admitted (it gets no success response), *)
(* no connection is parked or spliced any more, and no splice forwards     *)
(* another byte; a bridge on which Close has run has its stop channel and  *)
(* both sockets closed, is in state DISCONNECTED and polls no longer.      *)
(***************************************************************************)
CancelAborts ==
    /\ [][cancelled =>
            /\ \A c \in Conns : hPc[c] = "handshake" => reply'[c] # "ok"
            /\ DOMAIN pending' \subseteq DOMAIN pending
            /\ splices' \subseteq splices
            /\ \A c \in Conns : Len(sndbuf'[c]) <= Len(sndbuf[c])]_vars
    /\ [](closeCalls.Close >= 1 => (BridgeClosed /\ oPc # "waitForGame"))

(***************************************************************************)
(* C31: the liveness flags have a single writer. A step changes the        *)
(* HostConnected or JoinConnected flag of a session (a new session starts  *)
(* with both flags false) only if it is a /session/{id}/connect request    *)
(* that succeeded; create and join leave the flags as they are.            *)
(***************************************************************************)
LivenessSingleWriter ==
    [][\A id \in DOMAIN sessions' :
          LET before == IF id \in DOMAIN sessions THEN sessions[id] ELSE NoSession IN
          (\/ sessions'[id].HostConnected # before.HostConnected
           \/ sessions'[id].JoinConnected # before.JoinConnected)
             => (lastResp'.op = "connect" /\ lastResp'.status = 200)]_vars

(***************************************************************************)
(* C32: every splice joins one connection admitted as host and one         *)
(* admitted as joiner of the session id the splice is for: the two are     *)
(* different connections, each got the success response for a frame that   *)
(* names that session id and its role with a token signed for both, and    *)
(* the host's connection is on the host side.                              *)
(***************************************************************************)
AdmittedAs(c, sid, role) ==
    /\ reply[c] = "ok"
    /\ frame[c].sessionId = sid
    /\ frame[c].role = role
    /\ LET v == Verify(frame[c].relayToken, ServerSecret, 0) IN
         v.err = "" /\ v.claims.sid = sid /\ v.claims.role = role

PendingSocketsOpen ==
    /\ [](\A sid \in DOMAIN pending :
             /\ ~sockClosed[pending[sid].Conn]
             /\ hPc[pending[sid].Conn] = "waiting"
             /\ frame[pending[sid].Conn].sessionId = sid)
    /\ [][\A s \in splices' \ splices :
             ~sockClosed[s.hostConn] /\ ~sockClosed[s.joinerConn]]_vars

\* a splice runs on two open sockets while the relay has closed the socket
\* of another connection it had admitted for the same session, which is in
\* no entry
PendingSocketsOpenWitness ==
    \E s \in splices : \E d \in Conns :
       /\ d \notin {s.hostConn, s.joinerConn}
       /\ frame[d].sessionId = s.sid
       /\ reply[d] = "ok"
       /\ sockClosed[d]
       /\ \A sid \in DOMAIN pending : pending[sid].Conn # d
       /\ ~sockClosed[s.hostConn]
       /\ ~sockClosed[s.joinerConn]

(***************************************************************************)
(* C34: no relay socket leaks. A handler that has returned has closed its  *)
(* socket, on every path. A socket the relay admitted and has not closed   *)
(* belongs to a connection that holds its session's pending entry, is in a *)
(* splice, or has its handler between the success response and the        *)
(* pairing, which it leaves for one of the other two: no admitted socket   *)
(* remains open for a session without entry and without splice. A handler  *)
(* whose wait has run out (the handshake deadline of a silent peer, the    *)
(* pair timeout of a parked one, the session deadline of a spliced one)    *)
(* eventually has its socket closed.                                       *)
(***************************************************************************)
WaitRanOut(c) ==
    \/ Stalled(c) /\ DeadlinePassed(c, now)
    \/ hPc[c] = "waiting" /\ now > deadline[c]
    \/ InSplice(c) /\ DeadlinePassed(c, now)

TokenWithinSession ==
    (lastResp.op \in {"create", "join"} /\ lastResp.status = 200) =>
       LET id == lastResp.sessionId
           issued == Verify(lastResp.relayToken, ServerSecret, 0)
       IN /\ issued.err = ""
          /\ issued.claims.sid = id
          /\ id \in DOMAIN sessions => issued.claims.exp <= sessions[id].ExpiresAt
          /\ Verify(lastResp.relayToken, ServerSecret, now).err = "" =>
                (id \in DOMAIN sessions /\ ~Expired(sessions[id], now))

(***************************************************************************)
(* C36: the standalone relay's validator accepts a token only if the       *)
(* relay's own signer verifies it (signature and expiry) at that moment;   *)
(* the answer of /internal/validate never makes up for a local rejection.  *)
(***************************************************************************)
LocalVerificationNecessary ==
    [][(<<tkPhase, tkToken, tkResult>>' # <<tkPhase, tkToken, tkResult>>
        /\ tkPhase' = "validated"
        /\ tkResult'.err = "")
          => Verify(tkToken', tkVerifier, now).err = ""]_vars

(***************************************************************************)
(* C37: the closed state is terminal. Once Close has closed the stop       *)
(* channel, every later step leaves the state DISCONNECTED, starts no copy *)
(* loop and leaves no socket of the bridge open.                           *)
(***************************************************************************)
ClosedIsTerminal ==
    [][stopCh =>
          /\ bState' = "DISCONNECTED"
          /\ \A d \in Directions : fPc'[d] \in {"loop", "write"} => fPc[d] \in {"loop", "write"}
          /\ \A s \in {"local", "relay"} : bConn'[s] # "open"]_vars

(***************************************************************************)
(* C38: every change of the bridge's state is reported. A step that        *)
(* changes the state calls the registered callback once, with the new      *)
(* state and with b.mu released, the step of Close that sets DISCONNECTED  *)
(* included; a step that leaves the state alone calls it not at all.       *)
(***************************************************************************)
StateChangesReported ==
    [][/\ bState' # bState =>
             callbacks' = Append(callbacks, [state |-> bState', locked |-> FALSE])
       /\ bState' = bState => callbacks' = callbacks]_vars

(***************************************************************************)
(* C39: a session is not mutated after its expiry instant. A step taken    *)
(* while a stored session has expired leaves that session as it is or      *)
(* removes it: a connection report for it changes neither liveness flag.   *)
(***************************************************************************)
ExpiredSessionFrozen ==
    [][\A id \in DOMAIN sessions :
          (Expired(sessions[id], now) /\ id \in DOMAIN sessions') =>
             sessions'[id] = sessions[id]]_vars


(***************************************************************************)
(* C40: eviction is unobservable. On every sequence of timed Allow calls   *)
(* the limiter whose janitor sweeps answers as the limiter that never      *)
(* deletes a bucket: each Allow returns what the unswept limiter returns,  *)
(* and at every instant an address that has called holds as many tokens    *)
(* in one as in the other. Allow finds or creates the bucket and uses it   *)
(* in one critical section: a bucket enters the map in the step that       *)
(* answers its address's request from it, and a sweep answers no request.  *)
(***************************************************************************)
EvictionUnobservable ==
    /\ [](\A ip \in DOMAIN unswept :
             Advance(ClientOf(limiters, ip, now), now) = Advance(unswept[ip], now))
    /\ [][\A ip \in Identities :
             LimiterAllow(ip) =>
                verdict'.ok = BucketAllow(ClientOf(unswept, ip, now), now).ok]_vars
    /\ [][/\ \A ip \in DOMAIN limiters' \ DOMAIN limiters :
                /\ verdict' = [ip |-> ip, ok |-> TRUE]
                /\ limiters'[ip] = [tokens |-> Burst - 1, last |-> now, lastSeen |-> now]
          /\ DOMAIN limiters \ DOMAIN limiters' # {} =>
                /\ verdict' = verdict
                /\ \A ip \in DOMAIN limiters' : limiters'[ip] = limiters[ip]]_vars

\* a sweep has deleted the bucket of an address that called more than the horizon ago
EvictionUnobservableWitness ==
    \E ip \in DOMAIN unswept \ DOMAIN limiters :
        /\ now > unswept[ip].lastSeen + CleanupAge
        /\ \E other \in DOMAIN limiters : verdict = [ip |-> other, ok |-> FALSE]
====
